---- MODULE Spec2Model ----
(***************************************************************************)
(* Model of the in-memory record management engine of                      *)
(* public/js/vendors-core.js: VendorDataStore (the record store), the      *)
(* Add/Update/Delete commands and CommandHistory (undo/redo),              *)
(* VendorAppState (the derived view) and the sort strategies.              *)
(*                                                                         *)
(* JavaScript values are modelled as tagged records (JsValue): a number,   *)
(* a string (a sequence of one-character strings) or undefined.  A vendor  *)
(* record is a function from field names to JsValues.  Arrays are          *)
(* sequences.                                                              *)
(***************************************************************************)
EXTENDS Integers, Sequences, FiniteSets, TLC

VARIABLES
    storeData,       \* VendorDataStore.data
    storeObservers,  \* VendorDataStore.observers (a Set: insertion order, no duplicates)
    storeLog,        \* the notifications the store delivered during its last operation
    cmds,            \* the command instances the history holds (the heap of commands)
    undoStack,       \* CommandHistory.undoStack: indices into cmds, top is last
    redoStack,       \* CommandHistory.redoStack: indices into cmds, top is last
    lastOp,          \* the operation that ran last
    lastArgs,        \* the arguments it was called with
    lastResult,      \* the value it returned
    lastCmd,         \* the command instance the last operation invoked (0: none)
    lastCall,        \* the method the last operation invoked on lastCmd
    scenario,        \* how far executeCommand(c); undo(); redo() has got, back to back;
                     \* "repeated" when the last call repeats the one before it
    snapshot,        \* the store contents before that executeCommand
    sortCall,        \* the arguments of a SortStrategy.sort call: strategy, data, column, direction
    sortResult,      \* what that call returned, once it has
    allVendors,      \* the array a caller got from getAllVendors(), and which array it is
    viewInstance,    \* VendorAppState.instance (0: null, else the number of the object)
    viewData,        \* VendorAppState.data
    viewShares,      \* VendorAppState.data is the very array VendorDataStore.data is
    filteredData,    \* VendorAppState.filteredData
    searchFilters,   \* VendorAppState.searchFilters (a Map: entries in insertion order)
    sortColumn,      \* VendorAppState.sortColumn
    sortDirection,   \* VendorAppState.sortDirection
    searchStrategy,  \* VendorAppState.searchStrategy
    sortStrategy,    \* VendorAppState.sortStrategy
    viewObservers,   \* VendorAppState.observers
    viewLog,         \* the calls of observers the view made during its last operation
    lruCapacity,     \* LRUCache.capacity
    lruCache,        \* LRUCache.cache (a Map: entries in insertion order)
    lruUses,         \* the keys by their last set or successful get, oldest first
    queueHeap,       \* PriorityQueue.heap
    timers,          \* Debouncer.timers (a Map from key to timer)
    pendingTimers    \* the timers setTimeout has set and that have neither fired nor been cleared

storeVars == <<storeData, storeObservers, storeLog>>
histVars  == <<cmds, undoStack, redoStack>>
ghostVars == <<lastOp, lastArgs, lastResult, lastCmd, lastCall, scenario, snapshot>>
sortVars  == <<sortCall, sortResult>>
heldVars  == <<allVendors>>
viewSame  == <<viewInstance, filteredData, searchFilters, sortColumn, sortDirection,
               searchStrategy, sortStrategy, viewObservers, viewLog>>
viewVars  == <<viewData, viewShares, viewSame>>
timerVars == <<timers, pendingTimers>>
coreVars  == <<lruCapacity, lruCache, lruUses, queueHeap, timerVars>>
vars == <<storeVars, histVars, ghostVars, sortVars, heldVars, viewVars, coreVars>>

(***************************************************************************)
(* Bounds of the model.                                                    *)
(***************************************************************************)
MaxStore == 2      \* longest store array explored
MaxStack == 2      \* commands held by the history (both stacks together)
MaxSort == 3       \* longest array handed to a sort strategy

(***************************************************************************)
(* JavaScript values.                                                      *)
(***************************************************************************)
Undefined == [t |-> "undefined", n |-> 0, s |-> <<>>]
Num(k) == [t |-> "number", n |-> k, s |-> <<>>]
Str(chars) == [t |-> "string", n |-> 0, s |-> chars]

\* `this.previousState = null`, `return null`: the absence of a vendor object.
Null == [null |-> TRUE]

\* item[column]: reading a property an object does not have gives undefined.
Field(rec, f) == IF f \in DOMAIN rec THEN rec[f] ELSE Undefined

primaryKey == "id"

\* { ...a, ...b }: the fields of a, overridden and extended by those of b.
Spread(a, b) ==
    [f \in (DOMAIN a) \cup (DOMAIN b) |-> IF f \in DOMAIN b THEN b[f] ELSE a[f]]

(***************************************************************************)
(* Strings and conversions.  A string is a sequence of one-character       *)
(* strings over digits and letters.                                        *)
(***************************************************************************)
Digits == <<"0", "1", "2", "3", "4", "5", "6", "7", "8", "9">>
LowerLetters ==
    <<"a", "b", "c", "d", "e", "f", "g", "h", "i", "j", "k", "l", "m",
      "n", "o", "p", "q", "r", "s", "t", "u", "v", "w", "x", "y", "z">>
UpperLetters ==
    <<"A", "B", "C", "D", "E", "F", "G", "H", "I", "J", "K", "L", "M",
      "N", "O", "P", "Q", "R", "S", "T", "U", "V", "W", "X", "Y", "Z">>

IndexIn(seq, c) ==
    IF \E i \in 1..Len(seq) : seq[i] = c
    THEN CHOOSE i \in 1..Len(seq) : seq[i] = c
    ELSE 0

IsDigit(c) == IndexIn(Digits, c) # 0

\* String.prototype.toLowerCase.
LowerChar(c) ==
    IF IndexIn(UpperLetters, c) # 0 THEN LowerLetters[IndexIn(UpperLetters, c)] ELSE c
ToLowerCase(chars) == [i \in 1..Len(chars) |-> LowerChar(chars[i])]

\* The decimal digits of a natural number.
RECURSIVE DigitsOf(_)
DigitsOf(k) ==
    IF k < 10 THEN <<Digits[k + 1]>>
    ELSE Append(DigitsOf(k \div 10), Digits[(k % 10) + 1])

\* String(value).
StringOf(v) ==
    CASE v.t = "string" -> v.s
      [] v.t = "number" -> DigitsOf(v.n)
      [] v.t = "undefined" -> <<"u", "n", "d", "e", "f", "i", "n", "e", "d">>

\* The natural number a string of digits denotes.
RECURSIVE ValueOf(_)
ValueOf(chars) ==
    IF chars = <<>> THEN 0
    ELSE 10 * ValueOf(SubSeq(chars, 1, Len(chars) - 1))
            + (IndexIn(Digits, chars[Len(chars)]) - 1)

\* A number that may be NaN.
NaN == [nan |-> TRUE, n |-> 0]
Finite(k) == [nan |-> FALSE, n |-> k]

\* Number(value): the empty string is 0, a string of digits its value, any
\* other string and undefined NaN.
ToNumber(v) ==
    CASE v.t = "number" -> Finite(v.n)
      [] v.t = "undefined" -> NaN
      [] v.t = "string" ->
            IF \A i \in 1..Len(v.s) : IsDigit(v.s[i])
            THEN Finite(ValueOf(v.s)) ELSE NaN

\* `value || other`: undefined, 0 and the empty string are falsy.
Falsy(v) ==
    \/ v.t = "undefined"
    \/ v.t = "number" /\ v.n = 0
    \/ v.t = "string" /\ v.s = <<>>

\* new Date(value).getTime(): a number is its own time value; of the strings
\* only those with no digit are modelled, and they are no date: NaN.
DateGetTime(v) ==
    CASE v.t = "number" -> Finite(v.n)
      [] v.t = "undefined" -> NaN
      [] v.t = "string" -> NaN

\* a - b on numbers that may be NaN; the sign of the difference, or NaN.
Sign(k) == IF k < 0 THEN -1 ELSE IF k > 0 THEN 1 ELSE 0
Minus(a, b) == IF a.nan \/ b.nan THEN NaN ELSE Finite(Sign(a.n - b.n))
Negate(a) == IF a.nan THEN NaN ELSE Finite(0 - a.n)

\* a.localeCompare(b) for strings of digits and lower-case letters: digits
\* sort before letters, a proper prefix before the longer string.
Collation == Digits \o LowerLetters
RECURSIVE LocaleCompare(_, _)
LocaleCompare(a, b) ==
    IF a = <<>> /\ b = <<>> THEN 0
    ELSE IF a = <<>> THEN -1
    ELSE IF b = <<>> THEN 1
    ELSE IF a[1] = b[1] THEN LocaleCompare(Tail(a), Tail(b))
    ELSE Sign(IndexIn(Collation, a[1]) - IndexIn(Collation, b[1]))

(***************************************************************************)
(* Sort strategies.                                                        *)
(***************************************************************************)
\* The comparison function each strategy hands to Array.prototype.sort.
AlphabeticCompare(a, b, column, direction) ==
    LET aVal == ToLowerCase(IF Falsy(Field(a, column)) THEN <<>>
                            ELSE StringOf(Field(a, column)))
        bVal == ToLowerCase(IF Falsy(Field(b, column)) THEN <<>>
                            ELSE StringOf(Field(b, column)))
        comparison == Finite(LocaleCompare(aVal, bVal))
    IN  IF direction = "asc" THEN comparison ELSE Negate(comparison)

NumericCompare(a, b, column, direction) ==
    LET na == ToNumber(Field(a, column))
        nb == ToNumber(Field(b, column))
        aVal == IF na.nan \/ na.n = 0 THEN Finite(0) ELSE na
        bVal == IF nb.nan \/ nb.n = 0 THEN Finite(0) ELSE nb
        comparison == Minus(aVal, bVal)
    IN  IF direction = "asc" THEN comparison ELSE Negate(comparison)

DateCompare(a, b, column, direction) ==
    LET aVal == DateGetTime(IF Falsy(Field(a, column)) THEN Num(0)
                            ELSE Field(a, column))
        bVal == DateGetTime(IF Falsy(Field(b, column)) THEN Num(0)
                            ELSE Field(b, column))
        comparison == Minus(aVal, bVal)
    IN  IF direction = "asc" THEN comparison ELSE Negate(comparison)

\* What Array.prototype.sort makes of the comparison function's result: its
\* sign, NaN counting as 0.
SortCompare(strategy, a, b, column, direction) ==
    LET v == CASE strategy = "alphabetic" -> AlphabeticCompare(a, b, column, direction)
               [] strategy = "numeric" -> NumericCompare(a, b, column, direction)
               [] strategy = "date" -> DateCompare(a, b, column, direction)
    IN  IF v.nan THEN 0 ELSE Sign(v.n)

\* A consistent comparison function (ECMAScript, Array.prototype.sort): it
\* orders the elements of the array as a strict weak order.
Consistent(strategy, data, column, direction) ==
    LET S == {data[i] : i \in 1..Len(data)}
    IN  \A C \in {[p \in S \X S |->
                     SortCompare(strategy, p[1], p[2], column, direction)]} :
          /\ \A a \in S : C[a, a] = 0
          /\ \A a, b \in S : C[a, b] = 0 - C[b, a]
          /\ \A a, b, c \in S :
                /\ (C[a, b] = 0 /\ C[b, c] = 0) => C[a, c] = 0
                /\ (C[a, b] < 0 /\ C[b, c] < 0) => C[a, c] < 0

\* x placed into a sorted array, behind the elements it does not sort before.
RECURSIVE InsertSorted(_, _, _, _, _)
InsertSorted(strategy, sorted, x, column, direction) ==
    IF sorted = <<>> THEN <<x>>
    ELSE IF SortCompare(strategy, x, Head(sorted), column, direction) < 0
         THEN <<x>> \o sorted
         ELSE <<Head(sorted)>>
                 \o InsertSorted(strategy, Tail(sorted), x, column, direction)

\* The stable sort of an array under a consistent comparison function.
RECURSIVE StableSort(_, _, _, _)
StableSort(strategy, data, column, direction) ==
    IF data = <<>> THEN <<>>
    ELSE InsertSorted(strategy,
            StableSort(strategy, SubSeq(data, 1, Len(data) - 1), column, direction),
            data[Len(data)], column, direction)

\* The arrangements of an array.
Arrangements(data) ==
    {[i \in 1..Len(data) |-> data[p[i]]] :
        p \in {q \in [1..Len(data) -> 1..Len(data)] :
                  \A i, j \in 1..Len(data) : q[i] = q[j] => i = j}}

\* [...data].sort(compare): the stable sort when the comparison function is
\* consistent; otherwise the order of the copy is implementation-defined.
SortOutcomes(strategy, data, column, direction) ==
    IF Consistent(strategy, data, column, direction)
    THEN {StableSort(strategy, data, column, direction)}
    ELSE Arrangements(data)

\* A sort that orders the array it is given (data.sort(compare)) and returns it.
SortInPlace(strategy, data, column, direction) ==
    {[value |-> sorted, array |-> "data", input |-> sorted] :
        sorted \in SortOutcomes(strategy, data, column, direction)}

\* strategy.sort(data, column, direction): `[...data]` is a new array, which
\* sort() orders and returns; `value` is what the returned array holds, `input`
\* what data holds after the call.
SortCopy(strategy, data, column, direction) ==
    {[value |-> sorted, array |-> "copy", input |-> data] :
        sorted \in SortOutcomes(strategy, data, column, direction)}

(***************************************************************************)
(* Search strategies.                                                      *)
(***************************************************************************)
\* haystack.includes(needle).
Includes(haystack, needle) ==
    \E i \in 0..(Len(haystack) - Len(needle)) :
        SubSeq(haystack, i + 1, i + Len(needle)) = needle

\* An exact match that compares the values as they are (value === searchTerm).
ExactMatchStrict(value, searchTerm) == value = searchTerm

ExactMatch(value, searchTerm) == StringOf(value) = StringOf(searchTerm)

\* A partial match that looks for the term at the start of the value only.
PartialMatchPrefix(value, searchTerm) ==
    LET v == ToLowerCase(StringOf(value))
        t == ToLowerCase(StringOf(searchTerm))
    IN  Len(t) <= Len(v) /\ SubSeq(v, 1, Len(t)) = t

PartialMatch(value, searchTerm) ==
    Includes(ToLowerCase(StringOf(value)), ToLowerCase(StringOf(searchTerm)))

CaseInsensitiveMatch(value, searchTerm) ==
    ToLowerCase(StringOf(value)) = ToLowerCase(StringOf(searchTerm))

\* The source of new RegExp(searchTerm, 'i'): the term's string, the empty
\* pattern for undefined.
PatternOf(searchTerm) ==
    IF searchTerm.t = "undefined" THEN <<>> ELSE StringOf(searchTerm)

\* The patterns explored are made of letters, digits, '.', '(' and '['.  With
\* no ')' and no ']' to close them, a '(' is an unterminated group and a '[' an
\* unterminated character class: new RegExp throws a SyntaxError.
ValidPattern(pattern) ==
    \A i \in 1..Len(pattern) : pattern[i] \notin {"(", "["}

\* regex.test(chars) for a valid pattern of letters, digits and '.', with the
\* flag 'i': the pattern matches somewhere in chars, '.' standing for any
\* character and letters matching in either case.
RegexTest(pattern, chars) ==
    \E k \in 0..(Len(chars) - Len(pattern)) :
        \A i \in 1..Len(pattern) :
            \/ pattern[i] = "."
            \/ LowerChar(pattern[i]) = LowerChar(chars[k + i])

\* A match that takes a pattern it cannot compile for one that matches.
RegexMatchFailingOpen(value, searchTerm) ==
    IF ValidPattern(PatternOf(searchTerm))
    THEN RegexTest(PatternOf(searchTerm), StringOf(value))
    ELSE TRUE

\* RegexSearchStrategy.match: what new RegExp throws is caught and false is
\* returned.
RegexMatch(value, searchTerm) ==
    IF ValidPattern(PatternOf(searchTerm))
    THEN RegexTest(PatternOf(searchTerm), StringOf(value))
    ELSE FALSE

\* searchStrategy.match(value, searchTerm).
Match(strategy, value, searchTerm) ==
    CASE strategy = "exact" -> ExactMatch(value, searchTerm)
      [] strategy = "partial" -> PartialMatch(value, searchTerm)
      [] strategy = "caseInsensitive" -> CaseInsensitiveMatch(value, searchTerm)
      [] strategy = "regex" -> RegexMatch(value, searchTerm)

(***************************************************************************)
(* VendorAppState: the derived view.                                       *)
(***************************************************************************)
\* `this.sortColumn = null`.
NoColumn == "<null>"

\* A set that adds an entry whether or not the map holds the key.
MapSetAppending(entries, key, value) == Append(entries, <<key, value>>)

\* Map.set(key, value): a key the map holds keeps its place.
MapSet(entries, key, value) ==
    IF \E i \in 1..Len(entries) : entries[i][1] = key
    THEN [i \in 1..Len(entries) |->
             IF entries[i][1] = key THEN <<key, value>> ELSE entries[i]]
    ELSE Append(entries, <<key, value>>)

\* A delete that empties the map.
MapDeleteAll(entries, key) == <<>>

\* Map.delete(key).
MapDelete(entries, key) == SelectSeq(entries, LAMBDA e : e[1] # key)

\* A filter callback that returns after the first filter.
ItemPassesFirstFilter(item, entries, strategy) ==
    \/ entries = <<>>
    \/ Match(strategy, Field(item, Head(entries)[1]), Head(entries)[2])

\* The callback of this.data.filter: the first filter the item does not match
\* returns false.
RECURSIVE ItemPasses(_, _, _)
ItemPasses(item, entries, strategy) ==
    IF entries = <<>> THEN TRUE
    ELSE IF ~Match(strategy, Field(item, Head(entries)[1]), Head(entries)[2])
         THEN FALSE
         ELSE ItemPasses(item, Tail(entries), strategy)

\* this.data.filter(...): the items that pass, in the order of the array.
RECURSIVE FilterData(_, _, _)
FilterData(data, entries, strategy) ==
    IF data = <<>> THEN <<>>
    ELSE IF ItemPasses(Head(data), entries, strategy)
         THEN <<Head(data)>> \o FilterData(Tail(data), entries, strategy)
         ELSE FilterData(Tail(data), entries, strategy)

\* applyFiltersAndSort(): what filteredData may become.
ApplyFiltersAndSort(data, entries, strategy, sorter, column, direction) ==
    UNION {IF column # NoColumn
           THEN {o.value : o \in SortCopy(sorter, filtered, column, direction)}
           ELSE {filtered} :
              filtered \in {FilterData(data, entries, strategy)}}

(***************************************************************************)
(* VendorDataStore: the array operations, on the array's contents.         *)
(***************************************************************************)
\* data.findIndex(v => v[primaryKey] === id): the first match, 0 for JS's -1.
FindIndex(data, id) ==
    IF \E i \in 1..Len(data) : Field(data[i], primaryKey) = id
    THEN CHOOSE i \in 1..Len(data) :
            /\ Field(data[i], primaryKey) = id
            /\ \A j \in 1..(i - 1) : Field(data[j], primaryKey) # id
    ELSE 0

\* data.splice(index, 1): the array without its index-th element.
RemoveAt(data, index) ==
    [i \in 1..(Len(data) - 1) |-> IF i < index THEN data[i] ELSE data[i + 1]]

\* An observer that throws whenever it is called.
Throws(o) == o = "bad"

\* What a call that threw to its caller returned.
Thrown == [thrown |-> TRUE]

\* The observers up to and including the first that throws.
UpToThrow(observers) ==
    IF \E i \in 1..Len(observers) : Throws(observers[i])
    THEN SubSeq(observers, 1,
                CHOOSE i \in 1..Len(observers) :
                    /\ Throws(observers[i])
                    /\ \A j \in 1..(i - 1) : ~Throws(observers[j]))
    ELSE observers

\* Calls that go through the observers from the one subscribed last.
CallsNewestFirst(observers, event, seen) ==
    [i \in 1..Len(observers) |->
        [obs |-> observers[Len(observers) + 1 - i], event |-> event,
         seen |-> seen,
         threw |-> Throws(observers[Len(observers) + 1 - i])]]

\* The calls of the observers: who was called, with which event, what it saw
\* of the data at that moment, and whether it threw.
Calls(observers, event, seen) ==
    [i \in 1..Len(observers) |->
        [obs |-> observers[i], event |-> event, seen |-> seen,
         threw |-> Throws(observers[i])]]

\* notifyObservers(event, data): the subscribed observers are called once each,
\* in the Set's insertion order; nothing catches what an observer throws, so
\* the first that throws ends the forEach and the exception leaves the method.
NotifyObservers(observers, event, seen) ==
    [log |-> Calls(UpToThrow(observers), event, seen),
     threw |-> \E i \in 1..Len(observers) : Throws(observers[i])]

\* What the observers see of the store's array: the method has changed it when
\* it calls notifyObservers.
SeenAfterMutation(before, after) == after

\* The calls made for a sequence of at most one event.
Deliver(observers, events, before, after) ==
    IF events = <<>> THEN [log |-> <<>>, threw |-> FALSE]
    ELSE NotifyObservers(observers, events[1], SeenAfterMutation(before, after))

\* A store method that notifies throws if an observer does.
Raises(observers, events) == Deliver(observers, events, <<>>, <<>>).threw

\* A store method's outcome: the array afterwards, the events it notified and
\* its return value.
\* addVendor(vendor): push, notify 'vendorAdded', return the vendor.
AddVendor(data, vendor) ==
    [data |-> Append(data, vendor), events |-> <<"vendorAdded">>, result |-> vendor]

\* updateVendor(id, updates): the slot of the first match is replaced by the
\* merged object and 'vendorUpdated' is notified; null when nothing matches.
UpdateVendor(data, id, updates) ==
    LET index == FindIndex(data, id)
    IN  IF index # 0
        THEN LET merged == Spread(data[index], updates)
             IN  [data |-> [data EXCEPT ![index] = merged],
                  events |-> <<"vendorUpdated">>, result |-> merged]
        ELSE [data |-> data, events |-> <<>>, result |-> Null]

\* deleteVendor(id) without the test of the index: splice(-1, 1) takes the last
\* element out.
DeleteVendorUnchecked(data, id) ==
    LET index == FindIndex(data, id)
        at == IF index # 0 THEN index ELSE Len(data)
    IN  IF data = <<>>
        THEN [data |-> data, events |-> <<"vendorDeleted">>, result |-> Undefined]
        ELSE [data |-> RemoveAt(data, at),
              events |-> <<"vendorDeleted">>, result |-> data[at]]

\* deleteVendor(id): the first match is spliced out, 'vendorDeleted' is notified
\* and the removed object returned; null when nothing matches.
DeleteVendor(data, id) ==
    LET index == FindIndex(data, id)
    IN  IF index # 0
        THEN [data |-> RemoveAt(data, index),
              events |-> <<"vendorDeleted">>, result |-> data[index]]
        ELSE [data |-> data, events |-> <<>>, result |-> Null]

\* getVendor(id): data.find(...), the first match, or undefined.
GetVendor(data, id) ==
    LET index == FindIndex(data, id)
    IN  IF index # 0 THEN data[index] ELSE Undefined

\* `if (this.previousState)`, `if (this.deletedVendor)`: null and undefined are
\* falsy, an object is truthy.
IsNull(x) == x = Null \/ x = Undefined

(***************************************************************************)
(* Commands.  A command instance is an object of the heap cmds; its kind   *)
(* and arguments are set by the constructor, previousState and             *)
(* deletedVendor by execute().                                             *)
(***************************************************************************)
AddVendorCommand(vendor) ==
    [kind |-> "add", vendor |-> vendor, id |-> Undefined, updates |-> Null,
     previousState |-> Null, deletedVendor |-> Null]

UpdateVendorCommand(id, updates) ==
    [kind |-> "update", vendor |-> Null, id |-> id, updates |-> updates,
     previousState |-> Null, deletedVendor |-> Null]

DeleteVendorCommand(id) ==
    [kind |-> "delete", vendor |-> Null, id |-> id, updates |-> Null,
     previousState |-> Null, deletedVendor |-> Null]

\* The outcome of a command method: the store array, the events notified, the
\* command object afterwards and whether the method threw.
NoEffect(c, data) == [data |-> data, events |-> <<>>, cmd |-> c, threw |-> FALSE]

AddExecute(c, data, observers) ==
    LET r == AddVendor(data, c.vendor)
    IN  [data |-> r.data, events |-> r.events, cmd |-> c,
              threw |-> Raises(observers, r.events)]

AddUndo(c, data, observers) ==
    LET r == DeleteVendor(data, Field(c.vendor, primaryKey))
    IN  [data |-> r.data, events |-> r.events, cmd |-> c,
              threw |-> Raises(observers, r.events)]

UpdateExecute(c, data, observers) ==
    LET prev == GetVendor(data, c.id)
        r == UpdateVendor(data, c.id, c.updates)
    IN  [data |-> r.data, events |-> r.events,
         cmd |-> [c EXCEPT !.previousState = prev],
         threw |-> Raises(observers, r.events)]

UpdateUndo(c, data, observers) ==
    IF ~IsNull(c.previousState)
    THEN LET r == UpdateVendor(data, c.id, c.previousState)
         IN  [data |-> r.data, events |-> r.events, cmd |-> c,
              threw |-> Raises(observers, r.events)]
    ELSE NoEffect(c, data)

\* this.deletedVendor = this.store.deleteVendor(this.id): nothing is assigned
\* when deleteVendor throws.
DeleteExecute(c, data, observers) ==
    LET r == DeleteVendor(data, c.id)
        threw == Raises(observers, r.events)
    IN  [data |-> r.data, events |-> r.events,
         cmd |-> IF threw THEN c ELSE [c EXCEPT !.deletedVendor = r.result],
         threw |-> threw]

DeleteUndo(c, data, observers) ==
    IF ~IsNull(c.deletedVendor)
    THEN LET r == AddVendor(data, c.deletedVendor)
         IN  [data |-> r.data, events |-> r.events, cmd |-> c,
              threw |-> Raises(observers, r.events)]
    ELSE NoEffect(c, data)

\* command.execute() and command.undo(): dispatch on the command's class.
Execute(c, data, observers) ==
    CASE c.kind = "add" -> AddExecute(c, data, observers)
      [] c.kind = "update" -> UpdateExecute(c, data, observers)
      [] c.kind = "delete" -> DeleteExecute(c, data, observers)

Undo(c, data, observers) ==
    CASE c.kind = "add" -> AddUndo(c, data, observers)
      [] c.kind = "update" -> UpdateUndo(c, data, observers)
      [] c.kind = "delete" -> DeleteUndo(c, data, observers)

(***************************************************************************)
(* CommandHistory.  A history method's outcome: the store array, the       *)
(* command heap, the two stacks, the events the store notified and the     *)
(* command method that was invoked (cmd 0: none).                          *)
(***************************************************************************)
Top(stack) == stack[Len(stack)]
Pop(stack) == SubSeq(stack, 1, Len(stack) - 1)

\* A history method that popped nothing.
Nothing(data, heap, undo, redo) ==
    [data |-> data, events |-> <<>>, cmds |-> heap, undoStack |-> undo,
     redoStack |-> redo, cmd |-> 0, call |-> "none", threw |-> FALSE]

\* A history method that called `call` of heap[i] with outcome r, and the
\* stacks it leaves when that call returns; when the call throws, the
\* statements after it do not run and the stacks stay as `undoThrown` and
\* `redoThrown`.
Invoked(r, heap, i, call, undo, redo, undoThrown, redoThrown) ==
    [data |-> r.data, events |-> r.events,
     cmds |-> [heap EXCEPT ![i] = r.cmd],
     undoStack |-> IF r.threw THEN undoThrown ELSE undo,
     redoStack |-> IF r.threw THEN redoThrown ELSE redo,
     cmd |-> i, call |-> call, threw |-> r.threw]

\* executeCommand(command), command being heap[i]: execute it, push it on the
\* undo stack, clear the redo stack.
ExecuteCommand(data, heap, undo, redo, i, observers) ==
    Invoked(Execute(heap[i], data, observers), heap, i, "execute",
            Append(undo, i), <<>>, undo, redo)

\* undo() that clears the redo stack when nothing came off the undo stack.
HistoryUndoClearingRedo(data, heap, undo, redo, observers) ==
    IF undo # <<>>
    THEN Invoked(Undo(heap[Top(undo)], data, observers), heap, Top(undo),
                 "undo", Pop(undo), Append(redo, Top(undo)), Pop(undo), redo)
    ELSE Nothing(data, heap, undo, <<>>)

\* undo(): pop the undo stack; if a command came off, undo it and push it on
\* the redo stack.
HistoryUndo(data, heap, undo, redo, observers) ==
    IF undo # <<>>
    THEN Invoked(Undo(heap[Top(undo)], data, observers), heap, Top(undo),
                 "undo", Pop(undo), Append(redo, Top(undo)), Pop(undo), redo)
    ELSE Nothing(data, heap, undo, redo)

\* redo(): pop the redo stack; if a command came off, execute it and push it on
\* the undo stack.
HistoryRedo(data, heap, undo, redo, observers) ==
    IF redo # <<>>
    THEN Invoked(Execute(heap[Top(redo)], data, observers), heap, Top(redo),
                 "execute", Append(undo, Top(redo)), Pop(redo), undo, Pop(redo))
    ELSE Nothing(data, heap, undo, redo)

(***************************************************************************)
(* The inputs explored.                                                    *)
(***************************************************************************)
VA == [id |-> Num(1)]
VB == [id |-> Num(2)]
VC == [id |-> Num(1), name |-> Str(<<"a", "l">>)]   \* the identity key of VA

Vendors == {VC}
Ids == {Num(1)}
NameBo == [name |-> Str(<<"b", "o">>)]
IdTwo == [id |-> Num(2)]
Updates == { <<Num(1), NameBo>>, <<Num(1), IdTwo>> }
LoadSets == { <<VA, VB>> }
Observers == {"ui"}
FaultyObservers == {"ui", "bad"}
ManyObservers == {"ui", "bad", "log"}

NewCommands ==
    {AddVendorCommand(v) : v \in Vendors}
        \cup {UpdateVendorCommand(u[1], u[2]) : u \in Updates}
        \cup {DeleteVendorCommand(id) : id \in Ids}

\* An operation called without arguments.
NoArgs == [none |-> TRUE]

\* No sort call under way.
NoSortCall ==
    [strategy |-> "none", data |-> <<>>, column |-> "none", direction |-> "none"]
NoSortResult == [returned |-> FALSE, value |-> <<>>, array |-> "none", input |-> <<>>]

\* The arrays handed to a sort strategy: the record at position i has identity
\* key i and the sorted column holds a timestamp or count, a word, or nothing.
SortColumn == "value"
SortValues ==
    {Undefined, Num(0), Num(2), Num(10), Str(<<>>), Str(<<"b">>), Str(<<"B">>)}
SortRecord(i, v) ==
    IF v = Undefined THEN [id |-> Num(i)] ELSE [id |-> Num(i), value |-> v]
SortInputs ==
    UNION {{[i \in 1..n |-> SortRecord(i, vals[i])] : vals \in [1..n -> SortValues]} :
              n \in 0..MaxSort}
SortStrategies == {"alphabetic", "numeric", "date"}
Directions == {"asc", "desc"}

(***************************************************************************)
(* Initial state: new VendorDataStore(), new CommandHistory().             *)
(***************************************************************************)
\* No array is held by a caller.
NotHeld == [value |-> <<>>, array |-> "none"]

StoreInit ==
    /\ allVendors = NotHeld
    /\ storeData = <<>>
    /\ storeObservers = <<>>
    /\ storeLog = <<>>

HistoryInit ==
    /\ cmds = <<>>
    /\ undoStack = <<>>
    /\ redoStack = <<>>
    /\ lastOp = "new"
    /\ lastArgs = NoArgs
    /\ lastResult = Undefined
    /\ lastCmd = 0
    /\ lastCall = "none"
    /\ scenario = "none"
    /\ snapshot = <<>>

SortIdle ==
    /\ sortCall = NoSortCall
    /\ sortResult = NoSortResult

\* new LRUCache(), new PriorityQueue() and new Debouncer(), not used yet.
CoreInit ==
    /\ lruCapacity = 100
    /\ lruCache = <<>>
    /\ lruUses = <<>>
    /\ queueHeap = <<>>
    /\ timers = <<>>
    /\ pendingTimers = {}

\* new VendorAppState(), with the strategies it is given.
ViewInit(search, sorter) ==
    /\ viewInstance = 1
    /\ viewShares = FALSE
    /\ viewData = <<>>
    /\ filteredData = <<>>
    /\ searchFilters = <<>>
    /\ sortColumn = NoColumn
    /\ sortDirection = "asc"
    /\ searchStrategy = search
    /\ sortStrategy = sorter
    /\ viewObservers = <<>>
    /\ viewLog = <<>>

Init ==
    /\ StoreInit
    /\ HistoryInit
    /\ CoreInit
    /\ SortIdle
    /\ ViewInit("partial", "alphabetic")

\* An operation called outside the history, with its arguments and its return
\* value.
Ran(op, args, result) ==
    /\ lastOp' = op
    /\ lastArgs' = args
    /\ lastResult' = result
    /\ lastCmd' = 0
    /\ lastCall' = "none"
    /\ scenario' = IF lastOp = op /\ lastArgs = args THEN "repeated" ELSE "none"
    /\ snapshot' = <<>>
    /\ sortCall' = NoSortCall
    /\ sortResult' = NoSortResult
    /\ UNCHANGED coreVars

NoCommand(op) == Ran(op, NoArgs, Undefined)

\* this.data = data in the store: the store's array is another object from now
\* on, and whoever held the old one keeps it as it was.
Replaced ==
    /\ viewShares' = FALSE
    /\ allVendors' = IF allVendors.array = "store"
                     THEN [allVendors EXCEPT !.array = "copy"] ELSE allVendors
    /\ UNCHANGED <<viewData, viewSame>>

\* push, splice and the assignment of a slot change the store's array in place:
\* whoever holds that very array sees `data` too.
InPlace(data) ==
    /\ viewData' = IF viewShares THEN data ELSE viewData
    /\ allVendors' = IF allVendors.array = "store"
                     THEN [allVendors EXCEPT !.value = data] ELSE allVendors
    /\ UNCHANGED <<viewShares, viewSame>>

(***************************************************************************)
(* VendorDataStore operations called directly.                             *)
(***************************************************************************)
\* setData(data): the array is replaced and 'dataLoaded' notified.
StoreSetData(data) ==
    \E n \in {Deliver(storeObservers, <<"dataLoaded">>, storeData, data)} :
    /\ storeData' = data
    /\ storeLog' = n.log
    /\ Ran("setData", NoArgs, IF n.threw THEN Thrown ELSE Undefined)
    /\ Replaced
    /\ UNCHANGED <<storeObservers, histVars>>

\* addVendor, updateVendor, deleteVendor: the array is changed, the observers
\* are notified and the method returns, unless an observer threw.
StoreOutcome(res, op, args) ==
    \E r \in {res} :
    \E n \in {Deliver(storeObservers, r.events, storeData, r.data)} :
    /\ Len(r.data) <= MaxStore
    /\ storeData' = r.data
    /\ storeLog' = n.log
    /\ Ran(op, args, IF n.threw THEN Thrown ELSE r.result)
    /\ InPlace(r.data)
    /\ UNCHANGED <<storeObservers, histVars>>

StoreAddVendor(vendor) ==
    StoreOutcome(AddVendor(storeData, vendor), "addVendor", [vendor |-> vendor])

StoreUpdateVendor(id, updates) ==
    StoreOutcome(UpdateVendor(storeData, id, updates), "updateVendor",
                 [id |-> id, updates |-> updates])

StoreDeleteVendor(id) ==
    StoreOutcome(DeleteVendor(storeData, id), "deleteVendor", [id |-> id])

\* getVendor(id).
StoreGetVendor(id) ==
    /\ storeLog' = <<>>
    /\ Ran("getVendor", [id |-> id], GetVendor(storeData, id))
    /\ UNCHANGED <<storeData, storeObservers, histVars, heldVars, viewVars>>

\* getAllVendors that returns this.data itself.
GetAllVendorsShared(data) == [value |-> data, array |-> "store"]

\* getAllVendors(): [...this.data], a new array with the same elements.
GetAllVendors(data) == [value |-> data, array |-> "copy"]

StoreGetAllVendors ==
    /\ allVendors' = GetAllVendors(storeData)
    /\ storeLog' = <<>>
    /\ NoCommand("getAllVendors")
    /\ UNCHANGED <<storeData, storeObservers, histVars, viewVars>>

\* The caller changes the array it got from getAllVendors() into `value`; if
\* that array is the store's own, the store's data is `value` too.
Held(value, op) ==
    /\ allVendors.array # "none"
    /\ Len(value) <= MaxStore
    /\ allVendors' = [allVendors EXCEPT !.value = value]
    /\ storeData' = IF allVendors.array = "store" THEN value ELSE storeData
    /\ viewData' = IF allVendors.array = "store" /\ viewShares THEN value
                   ELSE viewData
    /\ storeLog' = <<>>
    /\ NoCommand(op)
    /\ UNCHANGED <<storeObservers, histVars, viewShares, viewSame>>

\* returned.push(vendor), returned.pop() and returned.reverse() by the caller.
CallerPush(vendor) == Held(Append(allVendors.value, vendor), "array.push")

CallerPop ==
    /\ allVendors.value # <<>>
    /\ Held(Pop(allVendors.value), "array.pop")

CallerReverse ==
    Held([i \in 1..Len(allVendors.value) |->
             allVendors.value[Len(allVendors.value) + 1 - i]], "array.reverse")

\* observers.add(observer): a Set ignores a second add of the same observer.
SetAdd(observers, o) ==
    IF \E i \in 1..Len(observers) : observers[i] = o
    THEN observers ELSE Append(observers, o)

\* observers.delete(observer).
SetDelete(observers, o) == SelectSeq(observers, LAMBDA x : x # o)

\* subscribe(observer).
StoreSubscribe(o) ==
    /\ storeObservers' = SetAdd(storeObservers, o)
    /\ storeLog' = <<>>
    /\ NoCommand("subscribe")
    /\ UNCHANGED <<storeData, histVars, heldVars, viewVars>>

\* The function subscribe(observer) returned.
StoreUnsubscribe(o) ==
    /\ \E i \in 1..Len(storeObservers) : storeObservers[i] = o
    /\ storeObservers' = SetDelete(storeObservers, o)
    /\ storeLog' = <<>>
    /\ Ran("unsubscribe", [observer |-> o], Undefined)
    /\ UNCHANGED <<storeData, histVars, heldVars, viewVars>>

(***************************************************************************)
(* CommandHistory operations.                                              *)
(***************************************************************************)
\* Command instances no stack holds any more are dropped from the heap and the
\* remaining ones renumbered in creation order (execute() overwrites whatever
\* a command captured, so a dropped instance submitted again is a new one).
Live(r) ==
    {r.undoStack[k] : k \in 1..Len(r.undoStack)}
        \cup {r.redoStack[k] : k \in 1..Len(r.redoStack)}

Rank(live, i) == Cardinality({j \in live : j <= i})

Renumber(live, stack) == [k \in 1..Len(stack) |-> Rank(live, stack[k])]

Collect(r) ==
    LET live == Live(r)
    IN  IF live = 1..Len(r.cmds) THEN r ELSE
        [r EXCEPT
           !.cmds = [k \in 1..Cardinality(live) |->
                        r.cmds[CHOOSE j \in live : Rank(live, j) = k]],
           !.undoStack = Renumber(live, r.undoStack),
           !.redoStack = Renumber(live, r.redoStack),
           !.cmd = IF r.cmd \in live THEN Rank(live, r.cmd) ELSE 0]

\* executeCommand starts the scenario, an undo() right after it and a redo()
\* right after that continue it.
Scenario(op) ==
    CASE op = "executeCommand" -> "executed"
      [] op = "undo" /\ scenario = "executed" -> "undone"
      [] op = "redo" /\ scenario = "undone" -> "redone"
      [] OTHER -> "none"

HistoryOutcome(res, op) ==
    \E r \in {Collect(res)} :
        /\ Len(r.data) <= MaxStore
        /\ Len(r.undoStack) <= MaxStack
        /\ storeData' = r.data
        /\ storeLog' = Deliver(storeObservers, r.events, storeData, r.data).log
        /\ cmds' = r.cmds
        /\ undoStack' = r.undoStack
        /\ redoStack' = r.redoStack
        /\ lastOp' = op
        /\ lastArgs' = NoArgs
        /\ lastResult' = IF r.threw THEN Thrown ELSE Undefined
        /\ lastCmd' = r.cmd
        /\ lastCall' = r.call
        /\ scenario' = Scenario(op)
        /\ snapshot' = IF Scenario(op) = "executed" THEN storeData
                       ELSE IF Scenario(op) = "none" THEN <<>> ELSE snapshot
        /\ InPlace(r.data)
        /\ UNCHANGED <<storeObservers, sortVars, coreVars>>

\* history.executeCommand(new ...Command(store, ...)).
ExecuteNewCommand(c) ==
    HistoryOutcome(
        ExecuteCommand(storeData, Append(cmds, c), undoStack, redoStack,
                       Len(cmds) + 1, storeObservers),
        "executeCommand")

\* history.executeCommand(command) with an instance the history already holds.
ExecuteCommandAgain(i) ==
    HistoryOutcome(
        ExecuteCommand(storeData, cmds, undoStack, redoStack, i, storeObservers),
        "executeCommand")

DoUndo == HistoryOutcome(HistoryUndo(storeData, cmds, undoStack, redoStack, storeObservers), "undo")

DoRedo == HistoryOutcome(HistoryRedo(storeData, cmds, undoStack, redoStack, storeObservers), "redo")

\* The loader calls setData, the user interface subscribes and edits through
\* the history.
Next ==
    \/ \E data \in LoadSets : StoreSetData(data)
    \/ \E o \in Observers : StoreSubscribe(o)
    \/ \E c \in NewCommands : ExecuteNewCommand(c)
    \/ \E i \in 1..Len(cmds) : ExecuteCommandAgain(i)
    \/ DoUndo
    \/ DoRedo

Spec == Init /\ [][Next]_vars

\* The store's methods called directly.
NextStore ==
    \/ \E data \in LoadSets : StoreSetData(data)
    \/ \E v \in Vendors : StoreAddVendor(v)
    \/ \E u \in Updates : StoreUpdateVendor(u[1], u[2])
    \/ \E id \in Ids : StoreDeleteVendor(id)
    \/ \E o \in FaultyObservers : StoreSubscribe(o)
    \/ \E o \in FaultyObservers : StoreUnsubscribe(o)
    \/ \E id \in Ids : StoreGetVendor(id)

SpecStore == Init /\ [][NextStore]_vars

\* The store and a caller that holds what getAllVendors() returned.
NextHeld ==
    \/ \E data \in LoadSets : StoreSetData(data)
    \/ \E v \in Vendors : StoreAddVendor(v)
    \/ \E u \in Updates : StoreUpdateVendor(u[1], u[2])
    \/ \E id \in Ids : StoreDeleteVendor(id)
    \/ StoreGetAllVendors
    \/ \E v \in Vendors : CallerPush(v)
    \/ CallerPop
    \/ CallerReverse

SpecHeld == Init /\ [][NextHeld]_vars

\* The store edited through the history, with observers one of which throws.
NextFaulty ==
    \/ \E data \in LoadSets : StoreSetData(data)
    \/ \E o \in FaultyObservers : StoreSubscribe(o)
    \/ \E c \in NewCommands : ExecuteNewCommand(c)
    \/ \E i \in 1..Len(cmds) : ExecuteCommandAgain(i)
    \/ DoUndo
    \/ DoRedo

SpecFaulty == Init /\ [][NextFaulty]_vars

\* The store loaded once and from then on edited through the history alone.
HistoryLoads == { <<>>, <<VA>>, <<VA, VB>> }

InitHistory ==
    /\ HistoryInit
    /\ CoreInit
    /\ SortIdle
    /\ ViewInit("partial", "alphabetic")
    /\ allVendors = NotHeld
    /\ storeData \in HistoryLoads
    /\ storeObservers \in {<<>>, <<"ui">>}
    /\ storeLog = <<>>

NextHistory ==
    \/ \E c \in NewCommands : ExecuteNewCommand(c)
    \/ \E i \in 1..Len(cmds) : ExecuteCommandAgain(i)
    \/ DoUndo
    \/ DoRedo

SpecHistory == InitHistory /\ [][NextHistory]_vars

(***************************************************************************)
(* A sort strategy called on its own: strategy.sort(data, column, direction).*)
(***************************************************************************)
InitSort ==
    /\ StoreInit
    /\ HistoryInit
    /\ CoreInit
    /\ ViewInit("partial", "alphabetic")
    /\ sortCall \in [strategy : SortStrategies, data : SortInputs,
                     column : {SortColumn}, direction : Directions]
    /\ sortResult = NoSortResult

SortReturns(strategy) ==
    /\ sortCall.strategy = strategy
    /\ ~sortResult.returned
    /\ \E o \in SortCopy(strategy, sortCall.data, sortCall.column,
                          sortCall.direction) :
          sortResult' = [returned |-> TRUE, value |-> o.value,
                         array |-> o.array, input |-> o.input]
    /\ UNCHANGED <<storeVars, histVars, ghostVars, sortCall, heldVars, viewVars,
                   coreVars>>

AlphabeticSort == SortReturns("alphabetic")
NumericSort == SortReturns("numeric")
DateSort == SortReturns("date")

NextSort ==
    \/ AlphabeticSort
    \/ NumericSort
    \/ DateSort

SpecSort == InitSort /\ [][NextSort]_vars

(***************************************************************************)
(* VendorAppState operations, on a view that is loaded from the store.     *)
(***************************************************************************)
RA1 == [id |-> Num(1), name |-> Str(<<"A", "l">>), category |-> Str(<<"A">>)]
RB2 == [id |-> Num(2), name |-> Str(<<"B", "a", "o">>), category |-> Str(<<"B">>)]
RA3 == [id |-> Num(3), name |-> Str(<<"a", "l">>), category |-> Str(<<"A">>)]
ViewLoads == { <<RA1, RB2>> }
ViewAdds == {RA3}
ViewDeletes == {Num(1)}
FilterColumns == {"name", "category"}
FilterTerms == {Str(<<>>), Str(<<"a">>)}
FilterUseTerms == {Undefined, Str(<<>>), Str(<<"a">>), Str(<<"B">>)}
SortColumns == {"name", NoColumn}
SortUseColumns == {"name", "category", NoColumn}
SearchStrategies == {"exact", "partial", "caseInsensitive"}

InitView ==
    /\ StoreInit
    /\ HistoryInit
    /\ CoreInit
    /\ SortIdle
    /\ \E search \in SearchStrategies : ViewInit(search, "alphabetic")

\* A notify without try/catch: the first observer that throws ends it.
NotifyUncaught(observers, event, seen) ==
    [log |-> Calls(UpToThrow(observers), event, seen),
     threw |-> \E i \in 1..Len(observers) : Throws(observers[i])]

\* notify(event, data): every observer is called, in insertion order; what an
\* observer throws is caught and logged.
Notify(observers, event, seen) ==
    [log |-> Calls(observers, event, seen), threw |-> FALSE]

\* What the observers see of filteredData, which held `before` when the
\* operation was called: notify that ran ahead of applyFiltersAndSort().
SeenBeforeRecompute(before, after) == before

\* What the observers see of filteredData: applyFiltersAndSort() has run when
\* notify is called.
SeenByObservers(before, after) == after

\* A view operation: the fields are assigned, applyFiltersAndSort() recomputes
\* filteredData and the event is notified.
ViewOutcome(data, shares, entries, column, direction, event, op, args) ==
    \E d \in {data}, e \in {entries} :
    \E f \in ApplyFiltersAndSort(d, e, searchStrategy, sortStrategy, column,
                                 direction) :
    \E n \in {Notify(viewObservers, event, SeenByObservers(filteredData, f))} :
        /\ viewInstance # 0
        /\ viewData' = d
        /\ viewShares' = shares
        /\ searchFilters' = e
        /\ sortColumn' = column
        /\ sortDirection' = direction
        /\ filteredData' = f
        /\ viewLog' = n.log
        /\ Ran(op, args, IF n.threw THEN Thrown ELSE Undefined)
        /\ UNCHANGED <<storeVars, histVars, heldVars, viewInstance,
                       searchStrategy, sortStrategy, viewObservers>>

\* appState.setData(store.getAllVendors()).
ViewSetData(data) ==
    ViewOutcome(data, FALSE, searchFilters, sortColumn, sortDirection,
                "dataChanged", "view.setData", NoArgs)

\* appState.setData(store.data): this.data = data keeps the array it is given,
\* here the store's own.
ViewSetDataShared ==
    ViewOutcome(storeData, TRUE, searchFilters, sortColumn, sortDirection,
                "dataChanged", "view.setData", [array |-> "store"])

\* setSearchFilter(column, value).
ViewSetSearchFilter(column, value) ==
    ViewOutcome(viewData, viewShares,
                IF ~Falsy(value) THEN MapSet(searchFilters, column, value)
                ELSE MapDelete(searchFilters, column),
                sortColumn, sortDirection, "filtersChanged", "setSearchFilter",
                [column |-> column, value |-> value])

\* setSortColumn that keeps the direction when the column is the active one.
ViewSetSortColumnNoToggle(column) ==
    IF sortColumn = column
    THEN ViewOutcome(viewData, viewShares, searchFilters, sortColumn, sortDirection,
                     "sortChanged", "setSortColumn", [column |-> column])
    ELSE ViewOutcome(viewData, viewShares, searchFilters, column, "asc",
                     "sortChanged", "setSortColumn", [column |-> column])

\* setSortColumn(column).
ViewSetSortColumn(column) ==
    IF sortColumn = column
    THEN ViewOutcome(viewData, viewShares, searchFilters, sortColumn,
                     IF sortDirection = "asc" THEN "desc" ELSE "asc",
                     "sortChanged", "setSortColumn", [column |-> column])
    ELSE ViewOutcome(viewData, viewShares, searchFilters, column, "asc",
                     "sortChanged", "setSortColumn", [column |-> column])

\* appState.subscribe(observer).
ViewSubscribe(o) ==
    /\ viewInstance # 0
    /\ viewObservers' = SetAdd(viewObservers, o)
    /\ viewLog' = <<>>
    /\ NoCommand("view.subscribe")
    /\ UNCHANGED <<storeVars, histVars, heldVars, viewInstance, viewData,
                   viewShares, filteredData, searchFilters, sortColumn,
                   sortDirection, searchStrategy, sortStrategy>>

\* The function appState.subscribe(observer) returned.
ViewUnsubscribe(o) ==
    /\ viewInstance # 0
    /\ \E i \in 1..Len(viewObservers) : viewObservers[i] = o
    /\ viewObservers' = SetDelete(viewObservers, o)
    /\ viewLog' = <<>>
    /\ Ran("view.unsubscribe", [observer |-> o], Undefined)
    /\ UNCHANGED <<storeVars, histVars, heldVars, viewInstance, viewData,
                   viewShares, filteredData, searchFilters, sortColumn,
                   sortDirection, searchStrategy, sortStrategy>>

\* strategy.sort(store.data, 'name', direction): the store's own array is the
\* argument.
SortStoreData(strategy, direction) ==
    \E o \in SortCopy(strategy, storeData, "name", direction) :
        /\ sortCall' = [strategy |-> strategy, data |-> storeData,
                        column |-> "name", direction |-> direction]
        /\ sortResult' = [returned |-> TRUE, value |-> o.value,
                          array |-> o.array, input |-> o.input]
        /\ storeData' = o.input
        /\ lastOp' = "sort"
        /\ lastArgs' = NoArgs
        /\ lastResult' = Undefined
        /\ lastCmd' = 0
        /\ lastCall' = "none"
        /\ scenario' = "none"
        /\ snapshot' = <<>>
        /\ UNCHANGED <<storeObservers, storeLog, histVars, heldVars, viewVars,
                       coreVars>>

NextView ==
    \/ \E data \in ViewLoads : StoreSetData(data)
    \/ \E v \in ViewAdds : StoreAddVendor(v)
    \/ \E id \in ViewDeletes : StoreDeleteVendor(id)
    \/ ViewSetData(storeData)
    \/ \E column \in FilterColumns, value \in FilterTerms :
          ViewSetSearchFilter(column, value)
    \/ \E column \in SortColumns : ViewSetSortColumn(column)
    \/ \E o \in Observers : ViewSubscribe(o)

SpecView == InitView /\ [][NextView]_vars

\* A view of the store, filtered and sorted.
NextFilter ==
    \/ \E data \in ViewLoads : StoreSetData(data)
    \/ \E id \in ViewDeletes : StoreDeleteVendor(id)
    \/ ViewSetData(storeData)
    \/ \E column \in FilterColumns, value \in FilterUseTerms :
          ViewSetSearchFilter(column, value)
    \/ \E column \in SortColumns : ViewSetSortColumn(column)

SpecFilter == InitView /\ [][NextFilter]_vars

\* The fields the constructor of VendorAppState assigns.
NewView ==
    [data |-> <<>>, shares |-> FALSE, filteredData |-> <<>>,
     searchFilters |-> <<>>, sortColumn |-> NoColumn, sortDirection |-> "asc",
     searchStrategy |-> "partial", sortStrategy |-> "alphabetic",
     observers |-> <<>>]

\* The fields of the instance as they are.
CurrentView ==
    [data |-> viewData, shares |-> viewShares, filteredData |-> filteredData,
     searchFilters |-> searchFilters, sortColumn |-> sortColumn,
     sortDirection |-> sortDirection, searchStrategy |-> searchStrategy,
     sortStrategy |-> sortStrategy, observers |-> viewObservers]

\* A constructor without the test of VendorAppState.instance: every call
\* initialises a new object and makes it the instance.
ConstructorFresh(instance, view) ==
    [instance |-> instance + 1, view |-> NewView, returned |-> instance + 1]

\* new VendorAppState(): the existing instance is returned if there is one;
\* otherwise the new object is initialised and becomes the instance.
Constructor(instance, view) ==
    IF instance # 0
    THEN [instance |-> instance, view |-> view, returned |-> instance]
    ELSE [instance |-> 1, view |-> NewView, returned |-> 1]

\* VendorAppState.getInstance(): constructs the instance if there is none.
GetInstance(instance, view) ==
    IF instance = 0
    THEN Constructor(instance, view)
    ELSE [instance |-> instance, view |-> view, returned |-> instance]

\* A construction request: the static field and the fields of the instance
\* afterwards, and the object the request returned.
Constructed(res, op) ==
    \E r \in {res} :
        /\ viewInstance' = r.instance
        /\ viewData' = r.view.data
        /\ viewShares' = r.view.shares
        /\ filteredData' = r.view.filteredData
        /\ searchFilters' = r.view.searchFilters
        /\ sortColumn' = r.view.sortColumn
        /\ sortDirection' = r.view.sortDirection
        /\ searchStrategy' = r.view.searchStrategy
        /\ sortStrategy' = r.view.sortStrategy
        /\ viewObservers' = r.view.observers
        /\ viewLog' = <<>>
        /\ Ran(op, NoArgs, [instance |-> r.returned])
        /\ UNCHANGED <<storeVars, histVars, heldVars>>

NewVendorAppState ==
    Constructed(Constructor(viewInstance, CurrentView), "new VendorAppState")

CallGetInstance ==
    Constructed(GetInstance(viewInstance, CurrentView), "getInstance")

\* Before the first construction request there is no instance; the fields
\* stand at what the constructor will assign.
InitSingleton ==
    /\ StoreInit
    /\ HistoryInit
    /\ CoreInit
    /\ SortIdle
    /\ viewInstance = 0
    /\ viewData = NewView.data
    /\ viewShares = NewView.shares
    /\ filteredData = NewView.filteredData
    /\ searchFilters = NewView.searchFilters
    /\ sortColumn = NewView.sortColumn
    /\ sortDirection = NewView.sortDirection
    /\ searchStrategy = NewView.searchStrategy
    /\ sortStrategy = NewView.sortStrategy
    /\ viewObservers = NewView.observers
    /\ viewLog = <<>>

\* The view constructed and used, and constructed again.
NextSingleton ==
    \/ NewVendorAppState
    \/ CallGetInstance
    \/ \E data \in ViewLoads : ViewSetData(data)
    \/ \E column \in FilterColumns, value \in FilterTerms :
          ViewSetSearchFilter(column, value)
    \/ \E column \in SortColumns : ViewSetSortColumn(column)
    \/ \E o \in Observers : ViewSubscribe(o)

SpecSingleton == InitSingleton /\ [][NextSingleton]_vars

\* A view that filters with the RegexSearchStrategy.
RegexTerms == {Str(<<>>), Str(<<"a">>), Str(<<".", "l">>), Str(<<"(">>),
               Str(<<"[", "a">>)}

InitRegex ==
    /\ StoreInit
    /\ HistoryInit
    /\ CoreInit
    /\ SortIdle
    /\ ViewInit("regex", "alphabetic")

NextRegex ==
    \/ \E data \in ViewLoads : StoreSetData(data)
    \/ \E id \in ViewDeletes : StoreDeleteVendor(id)
    \/ ViewSetData(storeData)
    \/ \E column \in FilterColumns, value \in RegexTerms :
          ViewSetSearchFilter(column, value)
    \/ \E column \in SortColumns : ViewSetSortColumn(column)
    \/ \E o \in Observers : ViewSubscribe(o)

SpecRegex == InitRegex /\ [][NextRegex]_vars

\* A search strategy called on its own: strategy.match(value, searchTerm).
MatchValues ==
    {Undefined, Num(0), Num(12), Str(<<>>), Str(<<"a">>), Str(<<"A", "l">>),
     Str(<<"B", "a", "o">>), Str(<<"(">>), Str(<<"[", "a">>)}

MatchTerms ==
    {Undefined, Num(12), Str(<<>>), Str(<<"a">>), Str(<<"a", "l">>),
     Str(<<"A", "O">>), Str(<<"1", "2">>), Str(<<"(">>)}

MatchStrategies == {"exact", "partial", "caseInsensitive", "regex"}

InitMatch ==
    /\ StoreInit
    /\ cmds = <<>>
    /\ undoStack = <<>>
    /\ redoStack = <<>>
    /\ lastOp = "match called"
    /\ lastArgs \in [strategy : MatchStrategies, value : MatchValues,
                     searchTerm : MatchTerms]
    /\ lastResult = Undefined
    /\ lastCmd = 0
    /\ lastCall = "none"
    /\ scenario = "none"
    /\ snapshot = <<>>
    /\ SortIdle
    /\ CoreInit
    /\ ViewInit("partial", "alphabetic")

MatchReturns(strategy) ==
    /\ lastOp = "match called"
    /\ lastArgs.strategy = strategy
    /\ lastOp' = "match"
    /\ lastResult' = [returned |-> Match(strategy, lastArgs.value,
                                         lastArgs.searchTerm)]
    /\ UNCHANGED <<storeVars, histVars, lastArgs, lastCmd, lastCall, scenario,
                   snapshot, sortVars, heldVars, viewVars, coreVars>>

ExactMatches == MatchReturns("exact")
PartialMatches == MatchReturns("partial")
CaseInsensitiveMatches == MatchReturns("caseInsensitive")
RegexMatches == MatchReturns("regex")

NextMatch ==
    \/ ExactMatches
    \/ PartialMatches
    \/ CaseInsensitiveMatches
    \/ RegexMatches

SpecMatch == InitMatch /\ [][NextMatch]_vars

\* A view that is given the store's array, or a copy of it.
NextShared ==
    \/ \E data \in ViewLoads : StoreSetData(data)
    \/ \E v \in ViewAdds : StoreAddVendor(v)
    \/ \E id \in ViewDeletes : StoreDeleteVendor(id)
    \/ ViewSetData(storeData)
    \/ ViewSetDataShared
    \/ \E column \in FilterColumns, value \in FilterTerms :
          ViewSetSearchFilter(column, value)
    \/ \E column \in SortColumns : ViewSetSortColumn(column)

SpecShared == Init /\ [][NextShared]_vars

\* The store and the view with observers that come and go.
NextUnsubscribe ==
    \/ \E data \in ViewLoads : StoreSetData(data)
    \/ \E id \in ViewDeletes : StoreDeleteVendor(id)
    \/ \E o \in ManyObservers : StoreSubscribe(o)
    \/ \E o \in ManyObservers : StoreUnsubscribe(o)
    \/ ViewSetData(storeData)
    \/ \E column \in SortColumns : ViewSetSortColumn(column)
    \/ \E o \in FaultyObservers : ViewSubscribe(o)
    \/ \E o \in FaultyObservers : ViewUnsubscribe(o)

SpecUnsubscribe == Init /\ [][NextUnsubscribe]_vars

\* A view of the store with observers, one of which throws.
NextNotify ==
    \/ \E data \in ViewLoads : StoreSetData(data)
    \/ \E id \in ViewDeletes : StoreDeleteVendor(id)
    \/ ViewSetData(storeData)
    \/ \E column \in FilterColumns, value \in FilterTerms :
          ViewSetSearchFilter(column, value)
    \/ \E column \in SortColumns : ViewSetSortColumn(column)
    \/ \E o \in FaultyObservers : ViewSubscribe(o)

SpecNotify == Init /\ [][NextNotify]_vars

\* The store and a view of it, sorted by the strategies and by setSortColumn.
NextSortUse ==
    \/ \E data \in ViewLoads : StoreSetData(data)
    \/ \E v \in ViewAdds : StoreAddVendor(v)
    \/ \E id \in ViewDeletes : StoreDeleteVendor(id)
    \/ ViewSetData(storeData)
    \/ \E column \in SortUseColumns : ViewSetSortColumn(column)
    \/ \E strategy \in SortStrategies, direction \in Directions :
          SortStoreData(strategy, direction)

SpecSortUse == Init /\ [][NextSortUse]_vars

(***************************************************************************)
(* core.js: LRUCache, a Map whose insertion order is the order of use.     *)
(***************************************************************************)
MaxCapacity == 2

LruKeys == 1..(MaxCapacity + 1)
LruValues == {"x", "y"}

\* Map.has(key) and Map.get(key).
MapHas(entries, key) == \E i \in 1..Len(entries) : entries[i][1] = key

MapGet(entries, key) ==
    entries[CHOOSE i \in 1..Len(entries) : entries[i][1] = key][2]

\* this.cache.keys().next().value, and the delete of it: the first key in
\* insertion order; nothing to delete in an empty map.
DeleteFirstKey(entries) ==
    IF entries = <<>> THEN entries ELSE MapDelete(entries, entries[1][1])

\* A get that returns the value and leaves the entry where it is.
LruGetInPlace(entries, key) ==
    IF ~MapHas(entries, key) THEN [cache |-> entries, result |-> Null]
    ELSE [cache |-> entries, result |-> MapGet(entries, key)]

\* get(key): null for a key the cache does not hold; else the entry is
\* deleted and set again, which makes it the last one, and the value returned.
LruGet(entries, key) ==
    IF ~MapHas(entries, key) THEN [cache |-> entries, result |-> Null]
    ELSE [cache |-> MapSet(MapDelete(entries, key), key, MapGet(entries, key)),
          result |-> MapGet(entries, key)]

\* set(key, value): a key the cache holds is deleted, else the first key is
\* deleted if the size has reached the capacity; then the entry is set, last.
LruSet(entries, capacity, key, value) ==
    MapSet(IF MapHas(entries, key) THEN MapDelete(entries, key)
           ELSE IF Len(entries) >= capacity THEN DeleteFirstKey(entries)
           ELSE entries,
           key, value)

\* key has just been used: it is the newest of the keys used.
Used(uses, key) == Append(SelectSeq(uses, LAMBDA k : k # key), key)

\* An operation of core.js, with its arguments and its return value.
CoreRan(op, args, result) ==
    /\ lastOp' = op
    /\ lastArgs' = args
    /\ lastResult' = result
    /\ UNCHANGED <<storeVars, histVars, lastCmd, lastCall, scenario, snapshot,
                   sortVars, heldVars, viewVars>>

CacheGet(key) ==
    /\ lruCache' = LruGet(lruCache, key).cache
    /\ lruUses' = IF MapHas(lruCache, key) THEN Used(lruUses, key) ELSE lruUses
    /\ CoreRan("cache.get", [key |-> key], LruGet(lruCache, key).result)
    /\ UNCHANGED <<lruCapacity, queueHeap, timerVars>>

CacheSet(key, value) ==
    /\ lruCache' = LruSet(lruCache, lruCapacity, key, value)
    /\ lruUses' = Used(lruUses, key)
    /\ CoreRan("cache.set", [key |-> key, value |-> value], Undefined)
    /\ UNCHANGED <<lruCapacity, queueHeap, timerVars>>

CacheClear ==
    /\ lruCache' = <<>>
    /\ CoreRan("cache.clear", NoArgs, Undefined)
    /\ UNCHANGED <<lruCapacity, lruUses, queueHeap, timerVars>>

\* new LRUCache(capacity) with a capacity of 1 or more.
InitLRU ==
    /\ StoreInit
    /\ HistoryInit
    /\ SortIdle
    /\ ViewInit("partial", "alphabetic")
    /\ lruCapacity \in 1..MaxCapacity
    /\ lruCache = <<>>
    /\ lruUses = <<>>
    /\ queueHeap = <<>>
    /\ timers = <<>>
    /\ pendingTimers = {}

NextLRU ==
    \/ \E key \in LruKeys : CacheGet(key)
    \/ \E key \in LruKeys, value \in LruValues : CacheSet(key, value)
    \/ CacheClear

SpecLRU == InitLRU /\ [][NextLRU]_vars

(***************************************************************************)
(* core.js: PriorityQueue, a binary heap in an array. The array index i of *)
(* the code is the place i + 1 of the sequence.                            *)
(***************************************************************************)
MaxHeap == 4

QueueValues == 1..3

\* The default compareFn: (a, b) => a - b.
Compare(a, b) == a - b

\* [heap[i], heap[j]] = [heap[j], heap[i]].
Swap(h, i, j) == [h EXCEPT ![i + 1] = h[j + 1], ![j + 1] = h[i + 1]]

\* bubbleUp(index): the element goes up while it compares below its parent.
RECURSIVE BubbleUp(_, _)
BubbleUp(h, index) ==
    IF index > 0
    THEN LET parentIndex == (index - 1) \div 2
         IN  IF Compare(h[index + 1], h[parentIndex + 1]) >= 0 THEN h
             ELSE BubbleUp(Swap(h, index, parentIndex), parentIndex)
    ELSE h

\* A bubbleDown that looks at the left child only.
RECURSIVE BubbleDownLeft(_, _)
BubbleDownLeft(h, index) ==
    LET leftChild == 2 * index + 1
        minIndex ==
            IF leftChild < Len(h) /\ Compare(h[leftChild + 1], h[index + 1]) < 0
            THEN leftChild ELSE index
    IN  IF minIndex = index THEN h
        ELSE BubbleDownLeft(Swap(h, index, minIndex), minIndex)

\* bubbleDown(index): the element goes down, changing places with the smaller
\* of its children, while a child compares below it.
RECURSIVE BubbleDown(_, _)
BubbleDown(h, index) ==
    LET leftChild == 2 * index + 1
        rightChild == 2 * index + 2
        minLeft ==
            IF leftChild < Len(h) /\ Compare(h[leftChild + 1], h[index + 1]) < 0
            THEN leftChild ELSE index
        minIndex ==
            IF rightChild < Len(h) /\ Compare(h[rightChild + 1], h[minLeft + 1]) < 0
            THEN rightChild ELSE minLeft
    IN  IF minIndex = index THEN h
        ELSE BubbleDown(Swap(h, index, minIndex), minIndex)

\* push(value).
Push(h, value) == BubbleUp(Append(h, value), Len(h))

\* pop(): undefined from an empty heap; else the last element takes the place
\* of the first, goes down, and the former first is returned.
QueuePopOutcome(h) ==
    IF Len(h) = 0 THEN [heap |-> h, result |-> Undefined]
    ELSE LET bottom == h[Len(h)]
             rest == SubSeq(h, 1, Len(h) - 1)
         IN  [heap |-> IF Len(rest) > 0
                       THEN BubbleDown([rest EXCEPT ![1] = bottom], 0)
                       ELSE rest,
              result |-> Num(h[1])]

\* peek(): this.heap[0].
Peek(h) == IF Len(h) = 0 THEN Undefined ELSE Num(h[1])

QueuePush(value) ==
    /\ Len(queueHeap) < MaxHeap
    /\ queueHeap' = Push(queueHeap, value)
    /\ CoreRan("queue.push", [value |-> value], Undefined)
    /\ UNCHANGED <<lruCapacity, lruCache, lruUses, timerVars>>

QueuePop ==
    /\ queueHeap' = QueuePopOutcome(queueHeap).heap
    /\ CoreRan("queue.pop", NoArgs, QueuePopOutcome(queueHeap).result)
    /\ UNCHANGED <<lruCapacity, lruCache, lruUses, timerVars>>

QueuePeek ==
    /\ CoreRan("queue.peek", NoArgs, Peek(queueHeap))
    /\ UNCHANGED coreVars

NextQueue ==
    \/ \E value \in QueueValues : QueuePush(value)
    \/ QueuePop
    \/ QueuePeek

SpecQueue == Init /\ [][NextQueue]_vars

(***************************************************************************)
(* core.js: Debouncer, and the timers of the event loop. A timer that      *)
(* fires runs its function to the end before anything else runs.           *)
(***************************************************************************)
MaxTimers == 2

DebounceKeys == {"k"}

\* The callbacks debounced: one that does nothing to the debouncer, and one
\* that calls debounce with its own key and the first callback.
Callbacks == {"plain", "again"}

\* The timer setTimeout returns: one no pending timer and no Map entry has.
NewTimer(entries, pending) ==
    CHOOSE id \in 1..(Len(entries) + Cardinality(pending) + 1) :
        /\ \A t \in pending : t.id # id
        /\ \A i \in 1..Len(entries) : entries[i][2] # id

\* clearTimeout(id): the timer is pending no more; nothing for a timer that
\* has fired or has been cleared.
ClearTimeout(pending, id) == {t \in pending : t.id # id}

\* The callers of cancel and debounce expect every timer pending for the key
\* to be off: the ones the debouncer leaves pending are marked.
Superseded(pending, key) ==
    {IF t.key = key THEN [t EXCEPT !.revoked = TRUE] ELSE t : t \in pending}

\* A debounce that sets the new timer and clears none.
DebounceKeepingOld(entries, pending, key, callback) ==
    LET timer == NewTimer(entries, pending)
    IN  [timers |-> MapSet(entries, key, timer),
         pending |-> pending \cup
                        {[id |-> timer, key |-> key, callback |-> callback,
                          revoked |-> FALSE]}]

\* debounce(key, callback, delay): the timer the Map holds for the key is
\* cleared, a new timer is set and the Map holds it for the key.
Debounce(entries, pending, key, callback) ==
    LET cleared == IF MapHas(entries, key)
                   THEN ClearTimeout(pending, MapGet(entries, key))
                   ELSE pending
        timer == NewTimer(entries, cleared)
    IN  [timers |-> MapSet(entries, key, timer),
         pending |-> cleared \cup
                        {[id |-> timer, key |-> key, callback |-> callback,
                          revoked |-> FALSE]}]

\* cancel(key).
Cancel(entries, pending, key) ==
    IF MapHas(entries, key)
    THEN [timers |-> MapDelete(entries, key),
          pending |-> ClearTimeout(pending, MapGet(entries, key))]
    ELSE [timers |-> entries, pending |-> pending]

\* cancelAll(): every timer the Map holds is cleared, and the Map.
CancelAll(entries, pending) ==
    [timers |-> <<>>,
     pending |-> {t \in pending :
                     \A i \in 1..Len(entries) : entries[i][2] # t.id}]

\* The function given to setTimeout: callback(), then this.timers.delete(key).
Fire(entries, pending, t) ==
    LET rest == pending \ {t}
        called == IF t.callback = "again"
                  THEN Debounce(entries, rest, t.key, "plain")
                  ELSE [timers |-> entries, pending |-> rest]
    IN  [timers |-> MapDelete(called.timers, t.key), pending |-> called.pending]

TimerOutcome(r, op, args) ==
    /\ Cardinality(r.pending) <= MaxTimers
    /\ timers' = r.timers
    /\ pendingTimers' = r.pending
    /\ CoreRan(op, args, Undefined)
    /\ UNCHANGED <<lruCapacity, lruCache, lruUses, queueHeap>>

DoDebounce(key, callback) ==
    TimerOutcome(Debounce(timers, Superseded(pendingTimers, key), key, callback),
                 "debounce", [key |-> key, callback |-> callback])

DoCancel(key) ==
    TimerOutcome(Cancel(timers, Superseded(pendingTimers, key), key),
                 "cancel", [key |-> key])

DoCancelAll ==
    TimerOutcome(CancelAll(timers,
                           {[t EXCEPT !.revoked = TRUE] : t \in pendingTimers}),
                 "cancelAll", NoArgs)

TimerFires(t) ==
    TimerOutcome(Fire(timers, pendingTimers, t), "timer fires", t)

NextDebounce ==
    \/ \E key \in DebounceKeys, callback \in Callbacks : DoDebounce(key, callback)
    \/ \E key \in DebounceKeys : DoCancel(key)
    \/ DoCancelAll
    \/ \E t \in pendingTimers : TimerFires(t)

SpecDebounce == Init /\ [][NextDebounce]_vars

(***************************************************************************)
(* Properties of the commands and of the history.                          *)
(***************************************************************************)
Range(seq) == {seq[i] : i \in 1..Len(seq)}
Count(seq, x) == Cardinality({i \in 1..Len(seq) : seq[i] = x})
Reverse(seq) == [i \in 1..Len(seq) |-> seq[Len(seq) + 1 - i]]

KeysOf(data) == {Field(data[i], primaryKey) : i \in 1..Len(data)}

\* Two store contents are equal by identity-key set and by the field names and
\* values of every record: they hold the same records, each as often.
StoreEquiv(a, b) ==
    /\ KeysOf(a) = KeysOf(b)
    /\ \A x \in Range(a) \cup Range(b) : Count(a, x) = Count(b, x)

\* C1: c.execute() followed by c.undo() leaves the store equal to what it was
\* before the execute, for every command.
C1_ExecuteUndoRoundTrip ==
    scenario = "undone" => StoreEquiv(storeData, snapshot)

\* C2: after executeCommand(command) the command is the top of the undo stack
\* and the redo stack is empty; a redo() right after it changes neither the
\* store nor the stacks.
C2_ExecuteCommandClearsRedo ==
    [][ /\ lastOp' = "executeCommand" =>
            /\ lastCmd' # 0
            /\ lastCall' = "execute"
            /\ undoStack' # <<>>
            /\ Top(undoStack') = lastCmd'
            /\ redoStack' = <<>>
        /\ (lastOp = "executeCommand" /\ lastOp' = "redo") =>
            /\ UNCHANGED <<storeData, cmds, undoStack, redoStack>>
            /\ lastCmd' = 0
            /\ storeLog' = <<>>
      ]_vars

\* C3: no command is on the undo stack and on the redo stack at the same time.
C3_StacksDisjoint ==
    Range(undoStack) \cap Range(redoStack) = {}

\* C4: undo() undoes the top of the undo stack, which is the command executed
\* or redone last, and moves it to the top of the redo stack; redo() executes
\* the top of the redo stack and moves it to the top of the undo stack; both
\* leave undoStack followed by the reversed redoStack unchanged.
C4_UndoRedoOrder ==
    [][ /\ (lastOp' = "undo" /\ undoStack # <<>>) =>
            /\ lastCmd' = Top(undoStack)
            /\ lastCall' = "undo"
            /\ undoStack' = Pop(undoStack)
            /\ redoStack' = Append(redoStack, Top(undoStack))
        /\ (lastOp' = "redo" /\ redoStack # <<>>) =>
            /\ lastCmd' = Top(redoStack)
            /\ lastCall' = "execute"
            /\ redoStack' = Pop(redoStack)
            /\ undoStack' = Append(undoStack, Top(redoStack))
        /\ lastOp' \in {"undo", "redo"} =>
            undoStack' \o Reverse(redoStack') = undoStack \o Reverse(redoStack)
        /\ (lastCall' = "execute") =>
            /\ undoStack' # <<>>
            /\ Top(undoStack') = lastCmd'
      ]_vars

\* C5: undo() on an empty undo stack and redo() on an empty redo stack invoke
\* no command, notify nothing and change neither the store nor the stacks.
C5_EmptyStackNoOp ==
    [][ ((lastOp' = "undo" /\ undoStack = <<>>)
            \/ (lastOp' = "redo" /\ redoStack = <<>>)) =>
            /\ UNCHANGED <<storeData, storeObservers, cmds, undoStack, redoStack>>
            /\ storeLog' = <<>>
            /\ lastCmd' = 0
            /\ lastCall' = "none"
      ]_vars

\* undo() has run on an empty undo stack, with an observer subscribed to a
\* store that holds records and with a command waiting on the redo stack.
C5_Witness ==
    /\ lastOp = "undo"
    /\ lastCmd = 0
    /\ undoStack = <<>>
    /\ redoStack # <<>>
    /\ storeObservers # <<>>
    /\ storeData # <<>>

\* C6: executeCommand(AddVendorCommand(store, r)) followed by undo() leaves no
\* record with r's identity key in the store, and a following redo() leaves r in
\* the store again.
C6_AddUndoRedo ==
    /\ (scenario = "undone" /\ cmds[lastCmd].kind = "add") =>
          Field(cmds[lastCmd].vendor, primaryKey) \notin KeysOf(storeData)
    /\ (scenario = "redone" /\ cmds[lastCmd].kind = "add") =>
          cmds[lastCmd].vendor \in Range(storeData)

\* C7: no two records in the store have the same identity-key value.
C7_UniqueIdentityKeys ==
    \A i, j \in 1..Len(storeData) :
        Field(storeData[i], primaryKey) = Field(storeData[j], primaryKey) => i = j

(***************************************************************************)
(* Properties of the sort strategies.                                      *)
(***************************************************************************)
\* The position of the record with identity key i in an array.
PositionOf(data, i) ==
    IF \E p \in 1..Len(data) : data[p].id = Num(i)
    THEN CHOOSE p \in 1..Len(data) : data[p].id = Num(i)
    ELSE 0

\* Records that compare equal are in `sorted` in the order they have in `data`.
TiesKeepOrder(strategy, data, sorted, direction) ==
    \A i, j \in 1..Len(data) :
        (i < j /\ SortCompare(strategy, data[i], data[j], SortColumn, direction) = 0)
            => /\ PositionOf(sorted, i) # 0
               /\ PositionOf(sorted, i) < PositionOf(sorted, j)

\* C10: with each sort strategy and in both directions, records whose sort keys
\* compare equal are in the output in the relative order they had in the
\* input.
C10_SortStable ==
    sortResult.returned =>
        TiesKeepOrder(sortCall.strategy, sortCall.data, sortResult.value,
                      sortCall.direction)

\* The sort keys as the specification gives them: the lower-cased stringified
\* value (nothing for an absent one), the number (0 for what is none), the
\* timestamp (0 for what is none).
AlphabeticKey(v) == ToLowerCase(IF v = Undefined THEN <<>> ELSE StringOf(v))
NumericKey(v) == IF ToNumber(v).nan THEN 0 ELSE ToNumber(v).n
ChronologicalKey(v) == IF DateGetTime(v).nan THEN 0 ELSE DateGetTime(v).n

\* The sign of the comparison of the keys of two records.
KeyCompare(strategy, a, b) ==
    CASE strategy = "alphabetic" ->
            LocaleCompare(AlphabeticKey(Field(a, SortColumn)),
                          AlphabeticKey(Field(b, SortColumn)))
      [] strategy = "numeric" ->
            Sign(NumericKey(Field(a, SortColumn)) - NumericKey(Field(b, SortColumn)))
      [] strategy = "date" ->
            Sign(ChronologicalKey(Field(a, SortColumn))
                    - ChronologicalKey(Field(b, SortColumn)))

\* C11: the output of each sort strategy is a permutation of the input, with
\* keys that do not decrease (ascending) or do not increase (descending).
C11_SortedPermutation ==
    sortResult.returned =>
        /\ Len(sortResult.value) = Len(sortCall.data)
        /\ \A i \in 1..Len(sortCall.data) : PositionOf(sortResult.value, i) # 0
        /\ \A k \in 1..(Len(sortResult.value) - 1) :
              IF sortCall.direction = "asc"
              THEN KeyCompare(sortCall.strategy, sortResult.value[k],
                              sortResult.value[k + 1]) <= 0
              ELSE KeyCompare(sortCall.strategy, sortResult.value[k],
                              sortResult.value[k + 1]) >= 0

(***************************************************************************)
(* Properties of the derived view.                                         *)
(***************************************************************************)
\* C8: every record in filteredData has an identity key that a record of the
\* store has.
C8_ViewNeverStale ==
    \A i \in 1..Len(filteredData) :
        Field(filteredData[i], primaryKey) \in KeysOf(storeData)

\* The positions of the records of the view's data that match every filter.
Matching ==
    {i \in 1..Len(viewData) :
        \A k \in 1..Len(searchFilters) :
            Match(searchStrategy, Field(viewData[i], searchFilters[k][1]),
                  searchFilters[k][2])}

\* C9: with no sort column, filteredData holds exactly the records of the
\* view's data that match every filter, in the order they have there; with no
\* filter it equals the data.
C9_FilterConjunction ==
    sortColumn = NoColumn =>
        /\ Len(filteredData) = Cardinality(Matching)
        /\ \A i \in Matching :
              filteredData[Cardinality({j \in Matching : j <= i})] = viewData[i]
        /\ searchFilters = <<>> => filteredData = viewData

\* Two filters are set on a view of two records: the first filter set keeps
\* both records, the second only one of them.
C9_Witness ==
    /\ lastOp = "setSearchFilter"
    /\ sortColumn = NoColumn
    /\ Len(searchFilters) = 2
    /\ Len(viewData) = 2
    /\ Len(filteredData) = 1
    /\ \A i \in 1..2 :
          Match(searchStrategy, Field(viewData[i], searchFilters[1][1]),
                searchFilters[1][2])

\* C12: sort returns a new array and leaves the array it was given as it was;
\* setSortColumn reorders neither the view's data nor the store's.
C12_SortLeavesInput ==
    [][ /\ lastOp' = "sort" =>
            /\ sortResult'.returned
            /\ sortResult'.array = "copy"
            /\ sortResult'.input = sortCall'.data
            /\ storeData' = storeData
        /\ lastOp' = "setSortColumn" =>
            /\ viewData' = viewData
            /\ storeData' = storeData
      ]_vars

\* A sort of the store's array has returned the records in another order.
C12_Witness ==
    /\ lastOp = "sort"
    /\ Len(storeData) >= 2
    /\ sortResult.value # sortCall.data

\* The records of the view are in the order of the column, in the direction.
InOrder(data, column, direction) ==
    \A k \in 1..(Len(data) - 1) :
        SortCompare("alphabetic", data[k], data[k + 1], column, direction) <= 0

\* C13: setSortColumn(column) on the active column flips the direction and
\* keeps the column; on any other column, or with none active, it makes the
\* column the active one, ascending; the view is then in that order, so two
\* calls in a row with one column give ascending, then descending order.
C13_SortToggle ==
    [][ lastOp' = "setSortColumn" =>
          /\ sortColumn' = lastArgs'.column
          /\ sortColumn = lastArgs'.column =>
                sortDirection' = IF sortDirection = "asc" THEN "desc" ELSE "asc"
          /\ sortColumn # lastArgs'.column => sortDirection' = "asc"
          /\ sortColumn' # NoColumn =>
                InOrder(filteredData', sortColumn', sortDirection')
          /\ (lastOp = "setSortColumn" /\ lastArgs.column = lastArgs'.column
                /\ sortDirection = "asc") => sortDirection' = "desc"
      ]_vars

\* setSortColumn('name') was called twice in a row on a view of two records
\* and has turned their order round.
C13_Witness ==
    /\ lastOp = "setSortColumn"
    /\ lastArgs.column = "name"
    /\ sortColumn = "name"
    /\ sortDirection = "desc"
    /\ viewData = <<RA1, RB2>>
    /\ filteredData = <<RB2, RA1>>

\* C14: setSearchFilter(column, value) called twice in a row gives the filters
\* and the filteredData that the first call gave.
C14_SetFilterIdempotent ==
    [][ (lastOp' = "setSearchFilter" /\ scenario' = "repeated") =>
            /\ searchFilters' = searchFilters
            /\ filteredData' = filteredData
      ]_vars

\* setSearchFilter was called twice in a row with a term that keeps some
\* records of the view and drops others, while another filter is set.
C14_Witness ==
    /\ lastOp = "setSearchFilter"
    /\ scenario = "repeated"
    /\ ~Falsy(lastArgs.value)
    /\ Len(searchFilters) = 2
    /\ filteredData # <<>>
    /\ Len(filteredData) < Len(viewData)

\* The term the filters hold for a column, undefined when they hold none.
TermOf(entries, column) ==
    IF \E k \in 1..Len(entries) : entries[k][1] = column
    THEN (CHOOSE k \in 1..Len(entries) : entries[k][1] = column)
    ELSE 0

\* C15: the filters hold at most one term for a column; setSearchFilter with a
\* non-empty term makes it the column's term, with an empty or absent one it
\* removes the column's entry, and the entries of other columns stay.
C15_OneTermPerColumn ==
    [][ /\ \A j, k \in 1..Len(searchFilters') :
              searchFilters'[j][1] = searchFilters'[k][1] => j = k
        /\ lastOp' = "setSearchFilter" =>
            /\ IF Falsy(lastArgs'.value)
               THEN TermOf(searchFilters', lastArgs'.column) = 0
               ELSE /\ TermOf(searchFilters', lastArgs'.column) # 0
                    /\ searchFilters'[TermOf(searchFilters', lastArgs'.column)][2]
                          = lastArgs'.value
            /\ \A c \in FilterColumns \ {lastArgs'.column} :
                  /\ (TermOf(searchFilters', c) = 0) = (TermOf(searchFilters, c) = 0)
                  /\ TermOf(searchFilters, c) # 0 =>
                        searchFilters'[TermOf(searchFilters', c)][2]
                            = searchFilters[TermOf(searchFilters, c)][2]
      ]_vars

\* A term has replaced another term of its column while the other column keeps
\* its filter.
C15_Witness ==
    /\ lastOp = "setSearchFilter"
    /\ Len(searchFilters) = 2
    /\ searchFilters[1][1] = lastArgs.column
    /\ searchFilters[1][2] = lastArgs.value
    /\ lastArgs.value = Str(<<"B">>)

\* The records of the view's data that match every filter, in their order.
MatchingRecords ==
    [k \in 1..Cardinality(Matching) |->
        viewData[CHOOSE i \in Matching : Cardinality({j \in Matching : j <= i}) = k]]

ViewOps == {"view.setData", "setSearchFilter", "setSortColumn"}

EventOf(op) ==
    CASE op = "view.setData" -> "dataChanged"
      [] op = "setSearchFilter" -> "filtersChanged"
      [] op = "setSortColumn" -> "sortChanged"

\* filteredData is the view's data, filtered and then sorted.
Recomputed ==
    filteredData \in
        (IF sortColumn # NoColumn
         THEN SortOutcomes(sortStrategy, MatchingRecords, sortColumn,
                           sortDirection)
         ELSE {MatchingRecords})

\* C16: when setData, setSearchFilter or setSortColumn has returned,
\* filteredData is the view's data filtered by all the filters and then, if a
\* sort column is set, sorted by the view's strategy; every observer was
\* notified of the operation's event and saw that filteredData.
C16_RecomputedBeforeNotify ==
    lastOp \in ViewOps =>
        /\ Recomputed
        /\ \A k \in 1..Len(viewLog) :
              /\ viewLog[k].event = EventOf(lastOp)
              /\ viewLog[k].seen = filteredData

\* An observer was notified of a filter that changed what the sorted view
\* holds.
C16_Witness ==
    /\ lastOp = "setSearchFilter"
    /\ sortColumn = "name"
    /\ sortDirection = "desc"
    /\ viewLog # <<>>
    /\ Len(filteredData) = 1
    /\ Len(viewData) = 2

\* C20: an observer of the view that throws does not keep the other observers
\* from being called with the event, and setData, setSearchFilter and
\* setSortColumn return normally with filteredData recomputed.
C20_ViewObserverThrowSwallowed ==
    (lastOp \in ViewOps /\ \E i \in 1..Len(viewObservers) : Throws(viewObservers[i])) =>
        /\ lastResult # Thrown
        /\ Len(viewLog) = Len(viewObservers)
        /\ \A i \in 1..Len(viewObservers) :
              /\ viewLog[i].obs = viewObservers[i]
              /\ viewLog[i].event = EventOf(lastOp)
        /\ Recomputed

\* The observer subscribed first threw and the second was still called.
C20_Witness ==
    /\ lastOp \in ViewOps
    /\ viewObservers = <<"bad", "ui">>
    /\ Len(viewLog) = 2
    /\ viewLog[1].threw
    /\ viewLog[2].obs = "ui"
    /\ filteredData # <<>>

\* C17: updateVendor and deleteVendor with an id no record has return null,
\* throw nothing, leave the store's array as it is and notify no observer;
\* getVendor with such an id returns undefined.
C17_AbsentIdNoOp ==
    [][ /\ (lastOp' \in {"updateVendor", "deleteVendor"}
              /\ lastArgs'.id \notin KeysOf(storeData)) =>
            /\ lastResult' = Null
            /\ storeData' = storeData
            /\ storeLog' = <<>>
        /\ (lastOp' = "getVendor" /\ lastArgs'.id \notin KeysOf(storeData)) =>
            /\ lastResult' = Undefined
            /\ storeData' = storeData
      ]_vars

\* deleteVendor missed in a store that holds records and has observers, one of
\* them throwing.
C17_Witness ==
    /\ lastOp = "deleteVendor"
    /\ lastResult = Null
    /\ storeData # <<>>
    /\ Len(storeObservers) = 2

\* updateVendor and getVendor missed too.
C17_WitnessLookup ==
    /\ lastOp \in {"updateVendor", "getVendor"}
    /\ lastResult \in {Null, Undefined}
    /\ storeData # <<>>

\* The store methods that change the array, when they find what they are to
\* change.
Mutated(op, args, data) ==
    \/ op \in {"setData", "addVendor"}
    \/ op \in {"updateVendor", "deleteVendor"} /\ args.id \in KeysOf(data)

StoreEventOf(op) ==
    CASE op = "setData" -> "dataLoaded"
      [] op = "addVendor" -> "vendorAdded"
      [] op = "updateVendor" -> "vendorUpdated"
      [] op = "deleteVendor" -> "vendorDeleted"

\* C18: setData, addVendor, and updateVendor and deleteVendor of a record the
\* store holds, call every subscribed observer exactly once, with the method's
\* event, when the array already holds what the method leaves in it.
C18_NotifiedOnceAfterMutation ==
    [][ (lastOp' \in {"setData", "addVendor", "updateVendor", "deleteVendor"}
            /\ Mutated(lastOp', lastArgs', storeData)) =>
            /\ Len(storeLog') = Len(storeObservers)
            /\ \A i \in 1..Len(storeObservers) :
                  /\ storeLog'[i].obs = storeObservers[i]
                  /\ storeLog'[i].event = StoreEventOf(lastOp')
                  /\ storeLog'[i].seen = storeData'
      ]_vars

\* C19: an observer of the store that throws keeps no other observer from
\* being called and nothing is thrown to the caller of the store's method, of
\* executeCommand, undo or redo; the command that was executed is on top of the
\* undo stack, the command that was undone on top of the redo stack.
C19_StoreObserverThrowContained ==
    [][ lastOp' \in {"setData", "executeCommand", "undo", "redo"} =>
            /\ lastResult' # Thrown
            /\ storeLog' # <<>> => Len(storeLog') = Len(storeObservers)
            /\ lastCall' = "execute" =>
                  /\ undoStack' # <<>>
                  /\ Top(undoStack') = lastCmd'
            /\ lastCall' = "undo" =>
                  /\ redoStack' # <<>>
                  /\ Top(redoStack') = lastCmd'
      ]_vars

\* C21: a construction request (new VendorAppState() or getInstance()) made
\* when an instance exists returns that instance, the one created first, and
\* leaves its data, filters, sort column and direction, strategies and
\* observers as they are.
C21_ConstructionIdempotent ==
    [][ (lastOp' \in {"new VendorAppState", "getInstance"} /\ viewInstance # 0) =>
            /\ lastResult' = [instance |-> 1]
            /\ viewInstance' = viewInstance
            /\ UNCHANGED <<viewData, filteredData, searchFilters, sortColumn,
                           sortDirection, searchStrategy, sortStrategy,
                           viewObservers>>
      ]_vars

\* new VendorAppState() was called on an instance that holds data, a filter, a
\* sort column and an observer.
C21_Witness ==
    /\ lastOp = "new VendorAppState"
    /\ viewData # <<>>
    /\ searchFilters # <<>>
    /\ sortColumn # NoColumn
    /\ viewObservers # <<>>

\* getInstance() was called on such an instance too.
C21_WitnessGetInstance ==
    /\ lastOp = "getInstance"
    /\ viewData # <<>>
    /\ searchFilters # <<>>

StoreMutators == {"setData", "addVendor", "updateVendor", "deleteVendor"}

C22_WitnessLater ==
    /\ lastOp = "deleteVendor"
    /\ lastResult # Null
    /\ allVendors.array # "none"
    /\ Len(allVendors.value) > Len(storeData)

\* The observers a log says were called.
Called(log) == {log[i].obs : i \in 1..Len(log)}

\* C23: the function subscribe returned takes its observer out of the store's,
\* or the view's, observers and leaves the others; no operation calls an
\* observer that is not subscribed, and the operation that follows the removal
\* calls all the others.
C23_UnsubscribeRemoves ==
    [][ /\ lastOp' = "unsubscribe" =>
              /\ lastArgs'.observer \notin Range(storeObservers')
              /\ storeObservers' = SetDelete(storeObservers, lastArgs'.observer)
        /\ lastOp' = "view.unsubscribe" =>
              /\ lastArgs'.observer \notin Range(viewObservers')
              /\ viewObservers' = SetDelete(viewObservers, lastArgs'.observer)
        /\ (lastOp' \in StoreMutators /\ Mutated(lastOp', lastArgs', storeData)) =>
              /\ Called(storeLog') \subseteq Range(storeObservers')
              /\ lastOp = "unsubscribe" =>
                    Called(storeLog') = Range(storeObservers')
        /\ lastOp' \in ViewOps =>
              /\ Called(viewLog') \subseteq Range(viewObservers')
              /\ lastOp = "view.unsubscribe" =>
                    Called(viewLog') = Range(viewObservers')
      ]_vars

\* What holds of C23: the removal, no call of an observer that is not
\* subscribed, and in the view the call of all the others.
C23_RemovedIsNotCalled ==
    [][ /\ lastOp' = "unsubscribe" =>
              storeObservers' = SetDelete(storeObservers, lastArgs'.observer)
        /\ lastOp' = "view.unsubscribe" =>
              viewObservers' = SetDelete(viewObservers, lastArgs'.observer)
        /\ (lastOp' \in StoreMutators /\ Mutated(lastOp', lastArgs', storeData)) =>
              Called(storeLog') \subseteq Range(storeObservers')
        /\ lastOp' \in ViewOps => Called(viewLog') = Range(viewObservers')
      ]_vars

InvalidTerms == {t \in RegexTerms : ~ValidPattern(PatternOf(t))}

\* C24: the RegexSearchStrategy returns false for every value when the term is
\* no valid regular expression; a setSearchFilter with such a term returns
\* normally, notifies filtersChanged to every observer and leaves filteredData
\* empty.
C24_InvalidPatternMatchesNothing ==
    /\ \A v \in MatchValues, t \in InvalidTerms : ~RegexMatch(v, t)
    /\ (lastOp = "setSearchFilter" /\ searchStrategy = "regex"
           /\ lastArgs.value \in InvalidTerms) =>
          /\ lastResult = Undefined
          /\ filteredData = <<>>
          /\ Called(viewLog) = Range(viewObservers)
          /\ \A k \in 1..Len(viewLog) : viewLog[k].event = "filtersChanged"

\* A filter with an invalid pattern was set on a view that holds records and
\* has an observer.
C24_Witness ==
    /\ lastOp = "setSearchFilter"
    /\ searchStrategy = "regex"
    /\ lastArgs.value \in InvalidTerms
    /\ viewData # <<>>
    /\ viewLog # <<>>

\* chars holds part as a run of neighbouring characters.
OccursIn(part, chars) ==
    \E before \in 0..Len(chars) :
        /\ before + Len(part) <= Len(chars)
        /\ \A j \in 1..Len(part) : chars[before + j] = part[j]

C25_WitnessNoMatch ==
    /\ lastOp = "match"
    /\ lastArgs.strategy = "partial"
    /\ lastArgs.value = Str(<<"B", "a", "o">>)
    /\ lastArgs.searchTerm = Str(<<"a", "l">>)
    /\ ~lastResult.returned

C26_WitnessCase ==
    /\ lastOp = "match"
    /\ lastArgs.strategy = "caseInsensitive"
    /\ lastArgs.value = Str(<<"A", "l">>)
    /\ lastArgs.searchTerm = Str(<<"a", "l">>)
    /\ lastResult.returned

\* The place of the first record of data whose identity key is id.
FirstWith(data, id) ==
    CHOOSE i \in 1..Len(data) :
        /\ Field(data[i], primaryKey) = id
        /\ \A j \in 1..(i - 1) : Field(data[j], primaryKey) # id

\* data without the element at place i.
Without(data, i) == SubSeq(data, 1, i - 1) \o SubSeq(data, i + 1, Len(data))

\* What addVendor, updateVendor and deleteVendor do to the array: addVendor
\* puts the vendor last; updateVendor of an id the store holds gives the first
\* record with that id the fields named and changes nothing else; deleteVendor
\* of such an id takes that first record out and keeps the others in order.
OnlyTargetChanged ==
    /\ lastOp' = "addVendor" => storeData' = Append(storeData, lastArgs'.vendor)
    /\ (lastOp' = "updateVendor" /\ lastArgs'.id \in KeysOf(storeData)) =>
          LET i == FirstWith(storeData, lastArgs'.id)
              old == storeData[i]
              new == storeData'[i]
              named == DOMAIN lastArgs'.updates
          IN  /\ Len(storeData') = Len(storeData)
              /\ \A j \in 1..Len(storeData) : j # i => storeData'[j] = storeData[j]
              /\ DOMAIN new = DOMAIN old \cup named
              /\ \A f \in named : new[f] = lastArgs'.updates[f]
              /\ \A f \in DOMAIN old \ named : new[f] = old[f]
    /\ (lastOp' = "deleteVendor" /\ lastArgs'.id \in KeysOf(storeData)) =>
          storeData' = Without(storeData, FirstWith(storeData, lastArgs'.id))

\* C27: addVendor, updateVendor and deleteVendor change their target only, and
\* deleteVendor returns the record it took out.
C27_MutatorsChangeOnlyTarget ==
    [][ /\ OnlyTargetChanged
        /\ (lastOp' = "deleteVendor" /\ lastArgs'.id \in KeysOf(storeData)) =>
              lastResult' = storeData[FirstWith(storeData, lastArgs'.id)]
      ]_vars

\* What holds of C27: the target only is changed, whether an observer throws
\* or not, and deleteVendor returns the record it took out when it returns.
C27_OnlyTargetChanged ==
    [][ /\ OnlyTargetChanged
        /\ (lastOp' = "deleteVendor" /\ lastArgs'.id \in KeysOf(storeData)
               /\ lastResult' # Thrown) =>
              lastResult' = storeData[FirstWith(storeData, lastArgs'.id)]
      ]_vars

\* C28: between two calls of the view's setData, the view's data, and with it
\* getTotalCount(), stays what the last setData was given, whatever is added
\* to or removed from the array that was passed in.
C28_ViewOwnsItsData ==
    [][ lastOp' # "view.setData" =>
            /\ viewData' = viewData
            /\ Len(viewData') = Len(viewData)
      ]_vars

\* What holds of C28: a view that was given a copy of the store's array keeps
\* its data until the next setData.
C28_CopyIsKept ==
    [][ (lastOp' # "view.setData" /\ ~viewShares) => viewData' = viewData ]_vars

\* The record with identity key id that getVendor finds in data, undefined if
\* there is none; the record deleteVendor takes out, null if there is none.
Found(data, id) ==
    IF id \in KeysOf(data) THEN data[FirstWith(data, id)] ELSE Undefined

Removed(data, id) ==
    IF id \in KeysOf(data) THEN data[FirstWith(data, id)] ELSE Null

\* data holds a record that has every field of record, with record's value.
Reinstated(data, record) ==
    \E j \in 1..Len(data) :
        /\ DOMAIN record \subseteq DOMAIN data[j]
        /\ \A f \in DOMAIN record : data[j][f] = record[f]

\* execute(), by executeCommand and by redo, captures what the store holds
\* then: the record the update is about to change, the record the delete took
\* out.
CapturedAtExecute ==
    (lastCall' = "execute" /\ lastCmd' # 0 /\ lastResult' # Thrown) =>
        LET c == cmds'[lastCmd']
        IN  /\ c.kind = "update" => c.previousState = Found(storeData, c.id)
            /\ c.kind = "delete" => c.deletedVendor = Removed(storeData, c.id)

\* No store method and no other command changes what a command holds: only
\* the execute() of the command itself does.
CapturedIsOwned ==
    lastOp' # "executeCommand" =>
        \A i \in 1..Len(cmds) :
            (i # lastCmd' \/ lastCall' # "execute") =>
                /\ i <= Len(cmds')
                /\ cmds'[i] = cmds[i]

\* C29: a command captures at execute(), and again at each redo, what its undo
\* needs; what it captured is changed by nothing else; undo() of an update
\* gives the record the field values it had before the execute, undo() of a
\* delete brings the removed record back.
C29_CapturedStateOwned ==
    [][ /\ CapturedAtExecute
        /\ CapturedIsOwned
        /\ (lastCall' = "undo" /\ undoStack # <<>>) =>
              LET c == cmds[Top(undoStack)]
              IN  /\ (c.kind = "update" /\ ~IsNull(c.previousState)) =>
                        Reinstated(storeData', c.previousState)
                  /\ (c.kind = "delete" /\ ~IsNull(c.deletedVendor)) =>
                        Reinstated(storeData', c.deletedVendor)
      ]_vars

\* What holds of C29: the capture at execute(), the ownership and the undo of
\* a delete.
C29_CaptureAndOwnership ==
    [][ /\ CapturedAtExecute
        /\ CapturedIsOwned
        /\ (lastCall' = "undo" /\ undoStack # <<>>) =>
              LET c == cmds[Top(undoStack)]
              IN  (c.kind = "delete" /\ ~IsNull(c.deletedVendor)) =>
                      Reinstated(storeData', c.deletedVendor)
      ]_vars

\* The observers in the order of their calls.
CalledInOrder(log) == [i \in 1..Len(log) |-> log[i].obs]

\* s is the beginning of t.
IsPrefix(s, t) == Len(s) <= Len(t) /\ s = SubSeq(t, 1, Len(s))

\* A subscribe puts a new observer behind those subscribed and leaves one that
\* is subscribed where it is.
SubscribedLast(before, after) ==
    \/ after = before
    \/ \E o \in ManyObservers :
          /\ o \notin Range(before)
          /\ after = Append(before, o)

\* C30: the store and the view call their subscribed observers in the order
\* in which they subscribed: subscribe puts the observer last, unsubscribe
\* keeps the order of the others, and every notification goes through the
\* observers from the one subscribed first.
C30_SubscriptionOrder ==
    [][ /\ lastOp' = "subscribe" => SubscribedLast(storeObservers, storeObservers')
        /\ lastOp' = "view.subscribe" => SubscribedLast(viewObservers, viewObservers')
        /\ lastOp' = "unsubscribe" =>
              storeObservers' = SetDelete(storeObservers, lastArgs'.observer)
        /\ lastOp' = "view.unsubscribe" =>
              viewObservers' = SetDelete(viewObservers, lastArgs'.observer)
        /\ (lastOp' \in StoreMutators /\ Mutated(lastOp', lastArgs', storeData)) =>
              /\ storeLog' # <<>> \/ storeObservers = <<>>
              /\ IsPrefix(CalledInOrder(storeLog'), storeObservers)
        /\ lastOp' \in ViewOps => CalledInOrder(viewLog') = viewObservers
      ]_vars

\* The store called two observers, the one subscribed first ahead of the
\* other.
C30_Witness ==
    /\ lastOp \in StoreMutators
    /\ storeObservers = <<"log", "ui">>
    /\ CalledInOrder(storeLog) = <<"log", "ui">>

\* The view called two observers in the order of their subscription.
C30_WitnessView ==
    /\ lastOp \in ViewOps
    /\ viewObservers = <<"ui", "bad">>
    /\ CalledInOrder(viewLog) = <<"ui", "bad">>

\* What a redo() called in the state the step has reached leaves.
RedoneNext ==
    Collect(HistoryRedo(storeData', cmds', undoStack', redoStack',
                        storeObservers'))

\* C31: an undo() with a command to undo, followed at once by redo(), leaves
\* the store with the records it held before the undo, by identity key and by
\* field values, and both stacks as they were before the undo.
C31_UndoRedoRoundTrip ==
    [][ (lastOp' = "undo" /\ undoStack # <<>>) =>
            /\ StoreEquiv(RedoneNext.data, storeData)
            /\ RedoneNext.undoStack = undoStack
            /\ RedoneNext.redoStack = redoStack
      ]_vars

\* What holds of C31: both stacks are as they were before the undo.
C31_StacksRoundTrip ==
    [][ (lastOp' = "undo" /\ undoStack # <<>>) =>
            /\ RedoneNext.undoStack = undoStack
            /\ RedoneNext.redoStack = redoStack
      ]_vars

\* executeCommand(DeleteVendorCommand(store, id)) removed a record and the
\* undo() right after it has run.
DeleteUndone ==
    /\ scenario = "undone"
    /\ lastCmd # 0
    /\ cmds[lastCmd].kind = "delete"
    /\ cmds[lastCmd].id \in KeysOf(snapshot)

\* C32: a delete of a record the store holds, followed by its undo, leaves the
\* store's array as it was before the delete, every record at its place, which
\* is what getAllVendors() and a view without sort column list.
C32_DeleteUndoKeepsOrder ==
    DeleteUndone => storeData = snapshot

\* What holds of C32: the undo puts the removed record back behind the records
\* that stayed, which keep their order.
C32_DeletedComesBackLast ==
    DeleteUndone =>
        LET i == FirstWith(snapshot, cmds[lastCmd].id)
        IN  storeData = Append(Without(snapshot, i), snapshot[i])

\* getTotalCount() and getFilteredCount().
TotalCount == Len(viewData)

FilteredCount == Len(filteredData)

\* C33: in every state of the view getFilteredCount() is at most
\* getTotalCount(), and they are equal when no filter is set.
C33_FilteredAtMostTotal ==
    /\ FilteredCount <= TotalCount
    /\ searchFilters = <<>> => FilteredCount = TotalCount

\* What holds of C33: the counts are so related when setData, setSearchFilter
\* or setSortColumn has returned, until something changes the array the view
\* was given.
C33_CountsAfterRecompute ==
    lastOp \in ViewOps =>
        /\ FilteredCount <= TotalCount
        /\ searchFilters = <<>> => FilteredCount = TotalCount

\* The keys the cache holds.
CacheKeys(entries) == {entries[i][1] : i \in 1..Len(entries)}

\* Of the keys the cache holds, the one whose last set or successful get is
\* the oldest.
LeastRecentlyUsed ==
    lruUses[CHOOSE i \in 1..Len(lruUses) :
                /\ lruUses[i] \in CacheKeys(lruCache)
                /\ \A j \in 1..(i - 1) : lruUses[j] \notin CacheKeys(lruCache)]

\* C34: a cache of capacity 1 or more never holds more keys than its capacity;
\* a set of a key it does not hold, when it is full, evicts the key whose last
\* set or successful get is the oldest and no other; any other set, and every
\* get, evicts nothing.
C34_LruWithinCapacity ==
    [][ /\ Len(lruCache') <= lruCapacity
        /\ Cardinality(CacheKeys(lruCache')) = Len(lruCache')
        /\ lastOp' = "cache.set" =>
              /\ MapHas(lruCache', lastArgs'.key)
              /\ MapGet(lruCache', lastArgs'.key) = lastArgs'.value
              /\ CacheKeys(lruCache) \ CacheKeys(lruCache') =
                    IF lastArgs'.key \notin CacheKeys(lruCache)
                          /\ Len(lruCache) = lruCapacity
                    THEN {LeastRecentlyUsed} ELSE {}
              /\ \A k \in CacheKeys(lruCache') \ {lastArgs'.key} :
                    MapGet(lruCache', k) = MapGet(lruCache, k)
        /\ lastOp' = "cache.get" =>
              /\ CacheKeys(lruCache') = CacheKeys(lruCache)
              /\ \A k \in CacheKeys(lruCache) :
                    MapGet(lruCache', k) = MapGet(lruCache, k)
              /\ lastResult' = IF lastArgs'.key \in CacheKeys(lruCache)
                               THEN MapGet(lruCache, lastArgs'.key) ELSE Null
        /\ lastOp' = "cache.clear" => lruCache' = <<>>
      ]_vars

\* A full cache whose oldest entry by insertion was read afterwards evicted
\* another key for a new one.
C34_Witness ==
    /\ lastOp = "cache.set"
    /\ lruCapacity = 2
    /\ lruUses = <<2, 1, 3>>
    /\ CacheKeys(lruCache) = {1, 3}

\* Every element compares at or above its parent in the heap.
HeapOrdered(h) ==
    \A i \in 1..(Len(h) - 1) : Compare(h[i + 1], h[((i - 1) \div 2) + 1]) >= 0

\* m is a minimum of the elements of h.
IsMinimum(h, m) ==
    /\ m \in Range(h)
    /\ \A x \in Range(h) : Compare(m, x) <= 0

\* C35: after every push and pop each element compares at or above its heap
\* parent; push adds one occurrence of its value; peek() and pop() return a
\* minimum of the elements held, pop() takes one occurrence of it out and
\* nothing else; on an empty queue they return undefined and change nothing.
C35_HeapOrder ==
    [][ /\ HeapOrdered(queueHeap')
        /\ lastOp' = "queue.push" =>
              \A x \in QueueValues :
                  Count(queueHeap', x) =
                      Count(queueHeap, x) + (IF x = lastArgs'.value THEN 1 ELSE 0)
        /\ (lastOp' \in {"queue.pop", "queue.peek"} /\ queueHeap = <<>>) =>
              /\ lastResult' = Undefined
              /\ queueHeap' = queueHeap
        /\ (lastOp' = "queue.peek" /\ queueHeap # <<>>) =>
              /\ IsMinimum(queueHeap, lastResult'.n)
              /\ queueHeap' = queueHeap
        /\ (lastOp' = "queue.pop" /\ queueHeap # <<>>) =>
              /\ IsMinimum(queueHeap, lastResult'.n)
              /\ \A x \in QueueValues :
                    Count(queueHeap', x) =
                        Count(queueHeap, x) - (IF x = lastResult'.n THEN 1 ELSE 0)
      ]_vars

\* A pop took the minimum out of a heap of four; the last element took its
\* place and went down below a child.
C35_Witness ==
    /\ lastOp = "queue.pop"
    /\ lastResult = Num(1)
    /\ queueHeap = <<2, 3, 3>>

\* The timers pending for a key.
PendingFor(key) == {t \in pendingTimers : t.key = key}

\* C36: no key has more than one callback pending; a debounce takes the
\* callback pending for its key off, and so do cancel and cancelAll, so that
\* none of them is pending afterwards and none runs, also when the callback
\* that fires calls debounce with its key.
C36_OnePendingPerKey ==
    /\ \A key \in DebounceKeys : Cardinality(PendingFor(key)) <= 1
    /\ \A t \in pendingTimers : ~t.revoked
    /\ lastOp = "timer fires" => ~lastArgs.revoked
    /\ lastOp = "cancel" => PendingFor(lastArgs.key) = {}
    /\ lastOp = "cancelAll" => pendingTimers = {}

\* What holds of C36: the timer the Map holds for a key is the one set last
\* for it, and every timer the Map holds is taken off by debounce, cancel and
\* cancelAll; a timer set by a callback that was firing is not in the Map.
C36_MapTimerIsCleared ==
    /\ \A i \in 1..Len(timers) :
          \A t \in pendingTimers : t.id = timers[i][2] => ~t.revoked
    /\ \A i, j \in 1..Len(timers) : timers[i][1] = timers[j][1] => i = j

====
